---- MODULE Spec2Model ----
(***************************************************************************)
(* Model of gomitalk-server (jkl1337/mactts): the ResponseBuffer of        *)
(* gomitalk-server/respbuf.go and the /say request pipeline of             *)
(* gomitalk-server/main.go (runHandler, speechHandler) together with the   *)
(* engine callbacks of mactts.go and audiofile.go.                         *)
(*                                                                         *)
(* Two specifications share the variables:                                 *)
(*   SpecBuf  - a ResponseBuffer driven by arbitrary Write/WriteAt calls;  *)
(*   Spec     - one /say request from runHandler's entry to the response,  *)
(*              with the synthesis engine, the completion callback, the    *)
(*              timer and the finalizers running concurrently.             *)
(***************************************************************************)
EXTENDS Integers, Sequences, FiniteSets, TLC

\* ------------------------------------------------------------------ bounds
\* largest offset handed to WriteAt
MaxOff == 2
\* longest slice handed to Write / WriteAt
MaxData == 2
\* number of write calls issued on one buffer in SpecBuf
MaxWrites == 2
\* number of write callbacks the engine issues while speaking
MaxEngineWrites == 1
\* longest buffer the calls of SpecRW build
MaxLen == 3
\* number of consecutive Read calls SpecRW follows
MaxReads == 2

\* the byte values used as data (two values tell any two writes apart)
Byte == {0, 1}

Min(a, b) == IF a < b THEN a ELSE b

Max(a, b) == IF a > b THEN a ELSE b

\* all byte slices of length 0..n
SlicesUpTo(n) == UNION {[1..k -> Byte] : k \in 0..n}

\* ------------------------------------------------------- ResponseBuffer
\* A Go slice rb.buf is a backing array (arr, Len(arr) = cap(rb.buf)) and a
\* length (len = len(rb.buf)); positions are 0-based in the code, 1-based here.
\* The zero value of the struct: nil slice, cursor 0, status 0, nil header.
NoHeader == [k \in {} |-> ""]

ResponseBuffer == [arr |-> <<>>, len |-> 0, readOfs |-> 0, status |-> 0, header |-> NoHeader]

cap(b) == Len(b.arr)

\* the bytes of rb.buf, i.e. rb.buf[0:len]
Contents(b) == SubSeq(b.arr, 1, b.len)

\* Go's copy(dst.buf[off:], p): the number of bytes copied
copyCount(b, off, p) == Min(Len(p), b.len - off)

\* Go's copy(dst.buf[off:], p): the buffer after the copy
copyAt(b, off, p) ==
  LET n == copyCount(b, off, p)
  IN [b EXCEPT !.arr = [i \in 1..Len(b.arr) |->
                          IF i > off /\ i <= off + n THEN p[i - off] ELSE b.arr[i]]]

\* a grow that forgets to copy the old bytes into the new backing array
growNoCopy(b, n) ==
  LET m == b.len
  IN IF m + n > cap(b)
       THEN [b EXCEPT !.arr = [i \in 1..(2 * cap(b) + n) |-> 0], !.len = m + n]
       ELSE [b EXCEPT !.len = m + n]

\* rb.grow(n): guarantee space for n more bytes and lengthen the slice by n
grow(b, n) ==
  LET m == b.len
  IN IF m + n > cap(b)
       THEN [b EXCEPT !.arr = [i \in 1..(2 * cap(b) + n) |->
                                 IF i <= m THEN b.arr[i] ELSE 0],
                      !.len = m + n]
       ELSE [b EXCEPT !.len = m + n]

\* a WriteAt that leaves the offset out of the space it asks grow for
WriteAtNoOff(b, p, off) ==
  LET need == Len(p) - b.len
      g    == IF need > 0 THEN grow(b, need) ELSE b
  IN [rb |-> copyAt(g, off, p), n |-> copyCount(g, off, p), err |-> "nil"]

\* rb.WriteAt(p, off): the buffer after the call and the returned (n, err)
\* (a negative off panics in the slice expression rb.buf[off:], after the grow)
WriteAt(b, p, off) ==
  LET need == Len(p) + off - b.len
      g    == IF need > 0 THEN grow(b, need) ELSE b
  IN IF off < 0
       THEN [rb |-> g, n |-> 0, err |-> "panic"]
       ELSE [rb |-> copyAt(g, off, p), n |-> copyCount(g, off, p), err |-> "nil"]

\* a Write that copies p to the start of the buffer instead of its old end
WriteAtStart(b, p) ==
  LET g == grow(b, Len(p))
  IN [rb |-> copyAt(g, 0, p), n |-> copyCount(g, 0, p), err |-> "nil"]

\* a Write that, like an append-and-rewind buffer, resets the read cursor
WriteResetsCursor(b, p) ==
  LET m == b.len
      g == grow(b, Len(p))
  IN [rb |-> [copyAt(g, m, p) EXCEPT !.readOfs = 0], n |-> copyCount(g, m, p), err |-> "nil"]

\* rb.Write(p): append
Write(b, p) ==
  LET m == b.len
      g == grow(b, Len(p))
  IN [rb |-> copyAt(g, m, p), n |-> copyCount(g, m, p), err |-> "nil"]

\* a ReadAt that signals end-of-data past the end even for an empty p
ReadAtEOFOnEmpty(b, n, off) ==
  IF off >= b.len
    THEN [data |-> <<>>, n |-> 0, err |-> "EOF"]
    ELSE IF off < 0
      THEN [data |-> <<>>, n |-> 0, err |-> "panic"]
      ELSE LET k == Min(n, b.len - off)
           IN [data |-> SubSeq(b.arr, off + 1, off + k), n |-> k, err |-> "nil"]

\* rb.ReadAt(p, off) with len(p) = n: bytes delivered and the error
\* (a negative off panics in the slice expression rb.buf[off:])
ReadAt(b, n, off) ==
  IF off >= b.len
    THEN [data |-> <<>>, n |-> 0, err |-> IF n = 0 THEN "nil" ELSE "EOF"]
    ELSE IF off < 0
      THEN [data |-> <<>>, n |-> 0, err |-> "panic"]
      ELSE LET k == Min(n, b.len - off)
           IN [data |-> SubSeq(b.arr, off + 1, off + k), n |-> k, err |-> "nil"]

\* a Read that copies from the start of the buffer instead of the cursor
ReadFromStart(b, n) ==
  LET k  == Min(n, b.len - b.readOfs)
      nb == [b EXCEPT !.readOfs = b.readOfs + k]
  IN [rb |-> nb, data |-> SubSeq(b.arr, 1, k), n |-> k,
      err |-> IF nb.readOfs >= nb.len THEN "EOF" ELSE "nil"]

\* rb.Read(data) with len(data) = n: bytes delivered, the error, the buffer after
Read(b, n) ==
  LET k  == Min(n, b.len - b.readOfs)
      nb == [b EXCEPT !.readOfs = b.readOfs + k]
  IN [rb |-> nb, data |-> SubSeq(b.arr, b.readOfs + 1, b.readOfs + k), n |-> k,
      err |-> IF nb.readOfs >= nb.len THEN "EOF" ELSE "nil"]

\* Go's int, scaled down: a two's complement word just wide enough for every
\* length and cursor of the model (the width of the real word is 64 bits)
MaxInt == 2 * MaxLen + 1

MinInt == -MaxInt - 1

\* the value of an int sum after wrap-around
WrapInt(x) == ((x - MinInt + 2 * (MaxInt + 1)) % (2 * (MaxInt + 1))) + MinInt

\* a Seek that forgets the upper clamp
SeekNoUpperClamp(b, offset, whence) ==
  LET o  == CASE whence = 0 -> offset
              [] whence = 1 -> WrapInt(b.readOfs + offset)
              [] whence = 2 -> WrapInt(b.len + offset)
              [] OTHER -> b.readOfs
      c  == IF o < 0 THEN 0 ELSE o
  IN [rb |-> [b EXCEPT !.readOfs = c], n |-> c, err |-> "nil"]

\* rb.Seek(offset, whence): the buffer after the call and the returned
\* (position, err); a whence other than 0, 1, 2 leaves the cursor as it is
Seek(b, offset, whence) ==
  LET o  == CASE whence = 0 -> offset
              [] whence = 1 -> WrapInt(b.readOfs + offset)
              [] whence = 2 -> WrapInt(b.len + offset)
              [] OTHER -> b.readOfs
      c  == IF o < 0 THEN 0 ELSE IF o > b.len THEN b.len ELSE o
  IN [rb |-> [b EXCEPT !.readOfs = c], n |-> c, err |-> "nil"]

\* ------------------------------------------------------- voice registry
\* a string-valued header or parameter, as a record so that it can be compared
\* with a fingerprint
Str(s) == [str |-> s]

\* mactts.VoiceSpec: the system's composite key of a voice; NilSpec is a nil *VoiceSpec
NilSpec == [Creator |-> 0, Id |-> 0]

Fred == [Name |-> "Fred", gender |-> "GenderMale", Locale |-> "en_US",
         spec |-> [Creator |-> 1, Id |-> 1]]

Hysterical == [Name |-> "Hysterical", gender |-> "GenderFemale", Locale |-> "en_US",
               spec |-> [Creator |-> 1, Id |-> 2]]

\* a nil *Voice
NilVoice == [Name |-> "", gender |-> "GenderNil", Locale |-> "", spec |-> NilSpec]

\* the VoiceCollection loadVoices builds from the enumerated voices vs:
\* the sequence and the name index (a later voice of the same name replaces
\* the earlier one in the index); json is left nil
VoiceCollection(vs) ==
  [json |-> <<>>,
   voices |-> vs,
   voiceByName |-> [n \in {vs[i].Name : i \in 1..Len(vs)} |->
                      vs[CHOOSE i \in 1..Len(vs) :
                           /\ vs[i].Name = n
                           /\ \A j \in 1..Len(vs) : vs[j].Name = n => j <= i]]]

Vicki == [Name |-> "Vicki", gender |-> "GenderFemale", Locale |-> "en_US",
          spec |-> [Creator |-> 1, Id |-> 3]]

Thomas == [Name |-> "Thomas", gender |-> "GenderMale", Locale |-> "fr_FR",
           spec |-> [Creator |-> 2, Id |-> 1]]

Zarvox == [Name |-> "Zarvox", gender |-> "GenderNeuter", Locale |-> "en_US",
           spec |-> [Creator |-> 1, Id |-> 4]]

\* the registries a process may have loaded at startup
Registries == {VoiceCollection(<<Fred, Hysterical>>), VoiceCollection(<<Hysterical>>)}

\* more registries: several voices matching one query in either order, a
\* second locale, a neuter voice, no Fred, no voice at all
ReqRegistries ==
  {VoiceCollection(<<Fred, Hysterical>>),
   VoiceCollection(<<Vicki, Hysterical, Fred, Thomas>>),
   VoiceCollection(<<Zarvox, Thomas, Hysterical>>),
   VoiceCollection(<<>>)}

\* vc.FindByName(name)
FindByName(vc, name) ==
  IF name \in DOMAIN vc.voiceByName THEN vc.voiceByName[name] ELSE NilVoice

\* a Match that returns the last matching record instead of the first
MatchLast(vc, gender, locale) ==
  LET loc0 == IF locale = "" THEN "en_US" ELSE locale
      hits == {i \in 1..Len(vc.voices) :
                 /\ (gender = "GenderNil" \/ gender = vc.voices[i].gender)
                 /\ loc0 = vc.voices[i].Locale}
  IN IF hits = {} THEN NilVoice
     ELSE vc.voices[CHOOSE i \in hits : \A j \in hits : i >= j]

\* vc.Match(gender, locale)
Match(vc, gender, locale) ==
  LET loc0 == IF locale = "" THEN "en_US" ELSE locale
      hits == {i \in 1..Len(vc.voices) :
                 /\ (gender = "GenderNil" \/ gender = vc.voices[i].gender)
                 /\ loc0 = vc.voices[i].Locale}
  IN IF hits = {} THEN NilVoice
     ELSE vc.voices[CHOOSE i \in hits : \A j \in hits : i <= j]

\* ------------------------------------------------------------- requests
Texts == {"", "hi"}

VoiceNames == {"", "Hysterical", "Nobody"}

GenderTokens == {"", "female", "robot"}

Langs == {"", "fr_FR"}

SampleRateTokens == {"", "16000"}

Methods == {"GET", "POST"}

Attachments == {"a.wav"}

TypeTokens == {""}

AcceptTokens == {"", "audio/mp4"}

\* the errors a handler returns: nil, *httpError{status, err}, or another error
NilErr == [kind |-> "nil", status |-> 0, msg |-> ""]

httpError(status, msg) == [kind |-> "httpError", status |-> status, msg |-> msg]

PlainErr(msg) == [kind |-> "error", status |-> 0, msg |-> msg]

\* the handler has not returned yet
NotReturned == [kind |-> "none", status |-> 0, msg |-> ""]

\* the switch on the gender parameter (speechHandler lines 157-169), for the
\* tokens it accepts
GenderOf(tok) ==
  CASE tok = "" -> "GenderNil"
    [] tok = "male" -> "GenderMale"
    [] tok = "neuter" -> "GenderNeuter"
    [] tok = "female" -> "GenderFemale"

\* a resolution that tries the gender/locale match before the name
resolveVoiceGenderFirst(vc, r) ==
  IF r.text = "" THEN [err |-> httpError(400, "missing text parameter"), spec |-> NilSpec]
  ELSE IF r.gender \notin {"", "male", "neuter", "female"}
    THEN [err |-> httpError(400, "invalid gender parameter"), spec |-> NilSpec]
  ELSE LET m == Match(vc, GenderOf(r.gender), r.lang)
           v == FindByName(vc, IF r.voice # "" THEN r.voice ELSE "Fred")
       IN IF r.gender # "" \/ r.lang # ""
            THEN IF m = NilVoice
                   THEN [err |-> httpError(404, "cannot find voice with specified gender and/or language"),
                         spec |-> NilSpec]
                   ELSE [err |-> NilErr, spec |-> m.spec]
            ELSE IF v = NilVoice
                   THEN [err |-> httpError(404, "voice not found"), spec |-> NilSpec]
                   ELSE [err |-> NilErr, spec |-> v.spec]

\* a resolution that falls back to Fred when the gender/locale match is empty
resolveVoiceFallThrough(vc, r) ==
  IF r.text = "" THEN [err |-> httpError(400, "missing text parameter"), spec |-> NilSpec]
  ELSE IF r.voice # ""
    THEN LET v == FindByName(vc, r.voice)
         IN IF v = NilVoice
              THEN [err |-> httpError(404, "voice not found"), spec |-> NilSpec]
              ELSE [err |-> NilErr, spec |-> v.spec]
  ELSE IF r.gender \notin {"", "male", "neuter", "female"}
    THEN [err |-> httpError(400, "invalid gender parameter"), spec |-> NilSpec]
  ELSE LET m == Match(vc, GenderOf(r.gender), r.lang)
           f == FindByName(vc, "Fred")
       IN IF (r.gender # "" \/ r.lang # "") /\ m # NilVoice
            THEN [err |-> NilErr, spec |-> m.spec]
            ELSE IF f = NilVoice
                   THEN [err |-> httpError(404, "unable to find suitable voice"), spec |-> NilSpec]
                   ELSE [err |-> NilErr, spec |-> f.spec]

\* speechHandler lines 142-187: text check and voice resolution; the error
\* returned (NilErr to go on) and the resolved voiceSpec
resolveVoice(vc, r) ==
  IF r.text = "" THEN [err |-> httpError(400, "missing text parameter"), spec |-> NilSpec]
  ELSE IF r.voice # ""
    THEN LET v == FindByName(vc, r.voice)
         IN IF v = NilVoice
              THEN [err |-> httpError(404, "voice not found"), spec |-> NilSpec]
              ELSE [err |-> NilErr, spec |-> v.spec]
  ELSE IF r.gender \notin {"", "male", "neuter", "female"}
    THEN [err |-> httpError(400, "invalid gender parameter"), spec |-> NilSpec]
  ELSE LET gender == CASE r.gender = "" -> "GenderNil"
                       [] r.gender = "male" -> "GenderMale"
                       [] r.gender = "neuter" -> "GenderNeuter"
                       [] r.gender = "female" -> "GenderFemale"
           m == Match(vc, gender, r.lang)
           f == FindByName(vc, "Fred")
       IN IF gender # "GenderNil" \/ r.lang # ""
            THEN IF m = NilVoice
                   THEN [err |-> httpError(404, "cannot find voice with specified gender and/or language"),
                         spec |-> NilSpec]
                   ELSE [err |-> NilErr, spec |-> m.spec]
            ELSE IF f = NilVoice
                   THEN [err |-> httpError(404, "unable to find suitable voice"), spec |-> NilSpec]
                   ELSE [err |-> NilErr, spec |-> f.spec]

\* a samplerate switch that takes any number the parameter spells
sampleRateOfAnyNumber(tok) ==
  CASE tok = "8000" -> 8000
    [] tok = "11025" -> 11025
    [] tok = "16000" -> 16000
    [] tok = "32000" -> 32000
    [] tok = "44100" -> 44100
    [] tok = "48000" -> 48000
    [] tok = "9000" -> 9000
    [] tok = "08000" -> 8000
    [] OTHER -> 22050

\* speechHandler lines 189-203: the samplerate switch
sampleRateOf(tok) ==
  CASE tok = "8000" -> 8000
    [] tok = "11025" -> 11025
    [] tok = "16000" -> 16000
    [] tok = "32000" -> 32000
    [] tok = "44100" -> 44100
    [] tok = "48000" -> 48000
    [] OTHER -> 22050

\* goautoneg.Negotiate(header, alternatives) over the five supported types: the
\* alternative a single-clause Accept value selects, "" if it selects none
Negotiate(header) ==
  CASE header \in {"audio/wave", "audio/wav", "audio/x-wav", "audio/vnd.wav", "audio/mp4"} -> header
    [] header \in {"*/*", "audio/*"} -> "audio/wave"
    [] OTHER -> ""

\* speechHandler lines 213-227: the response type negotiated for the request
responseTypeOf(r) ==
  LET acceptMimeType == IF r.type = "" THEN r.accept ELSE r.type
      acceptType == Negotiate(acceptMimeType)
  IN IF acceptType = "audio/mp4" THEN "audio/mp4" ELSE "audio/wav"

\* a negotiation that opens the AAC encoder for every request
newFileFuncAlwaysAAC(r) == "NewOutputAACFile"

\* speechHandler lines 213-227: the encoder constructor chosen with the
\* response type
newFileFuncOf(r) ==
  LET acceptMimeType == IF r.type = "" THEN r.accept ELSE r.type
      acceptType == Negotiate(acceptMimeType)
  IN IF acceptType = "audio/mp4" THEN "NewOutputAACFile" ELSE "NewOutputWAVEFile"

\* binary.BigEndian.PutUint32(b, uint32(v)): the four bytes
PutUint32(v) ==
  <<(v \div 16777216) % 256, (v \div 65536) % 256, (v \div 256) % 256, v % 256>>

\* voiceSpec.MarshalBinary(): a stable encoding of the voice's identity, the
\* two 32-bit fields of the VoiceSpec in a fixed width
MarshalBinary(spec) == PutUint32(spec.Creator) \o PutUint32(spec.Id)

\* []byte(s): the bytes of the strings the handler appends to etagBuf
Chars(s) ==
  CASE s = "audio/wav" -> <<97, 117, 100, 105, 111, 47, 119, 97, 118>>
    [] s = "audio/mp4" -> <<97, 117, 100, 105, 111, 47, 109, 112, 52>>
    [] s = "hi" -> <<104, 105>>
    [] s = "ho" -> <<104, 111>>
    [] s = "h" -> <<104>>
    [] s = "" -> <<>>

\* an Etag whose buffer leaves the response type out
EtagNoType(sampleRate, voiceSpec, responseType, msg) ==
  [md5 |-> PutUint32(sampleRate) \o MarshalBinary(voiceSpec) \o Chars(msg)]

\* speechHandler lines 233-242: the Etag, the hex MD5 digest (taken as
\* collision free, so it stands for the buffer it digests) of the bytes
\* rate ++ voice ++ type ++ text
Etag(sampleRate, voiceSpec, responseType, msg) ==
  [md5 |-> PutUint32(sampleRate) \o MarshalBinary(voiceSpec)
             \o Chars(responseType) \o Chars(msg)]

\* a checkEtagDone that is satisfied by any validator
checkEtagDoneAnyValidator(r, etag) ==
  IF r.inm # Str("")
    THEN IF etag = Str("") THEN FALSE ELSE TRUE
    ELSE FALSE

\* a checkEtagDone that forgets the wildcard
checkEtagDoneNoWildcard(r, etag) ==
  IF r.inm # Str("")
    THEN IF etag = Str("") THEN FALSE
         ELSE IF r.inm = etag THEN TRUE
         ELSE FALSE
    ELSE FALSE

\* checkEtagDone(req, etag)
checkEtagDone(r, etag) ==
  IF r.inm # Str("")
    THEN IF etag = Str("") THEN FALSE
         ELSE IF r.inm = etag \/ r.inm = Str("*") THEN TRUE
         ELSE FALSE
    ELSE FALSE

\* the If-None-Match values a client sends: none, the wildcard, a validator
\* that matches nothing, and the validators of two earlier responses
Validators ==
  {Str(""), Str("*"), Str("stale"),
   Etag(22050, Fred.spec, "audio/wav", "hi"),
   Etag(16000, Hysterical.spec, "audio/mp4", "hi")}

\* the parsed requests (req after req.ParseForm, with the headers read)
Requests ==
  [text : Texts, voice : VoiceNames, gender : GenderTokens, lang : Langs,
   samplerate : SampleRateTokens, method : Methods, attachment : Attachments,
   type : TypeTokens, accept : AcceptTokens, inm : Validators]

\* the requests of SpecReq: every combination of the parameters the voice
\* resolution reads, the other parameters left out of the request
ReqTexts == {"", "hi"}

ReqVoiceNames == {"", "Hysterical", "Fred", "Nobody"}

ReqGenderTokens == {"", "male", "female", "neuter", "robot"}

ReqLangs == {"", "en_US", "fr_FR", "en"}

ReqRequests ==
  [text : ReqTexts, voice : ReqVoiceNames, gender : ReqGenderTokens, lang : ReqLangs,
   samplerate : {""}, method : {"GET"}, attachment : {""},
   type : {""}, accept : {""}, inm : {Str("")}]

\* flag -etag (default true)
useEtag == TRUE

\* header h with key k set to v (http.Header.Set)
Set(h, k, v) == (k :> v) @@ h

\* ------------------------------------------------------------ variables
VARIABLES
  rb,        \* the request's ResponseBuffer (var rb in runHandler)
  wlog,      \* history: the write calls issued on rb in SpecBuf, in issue order
  ret,       \* history: what the last buffer call of SpecBuf returned, and the buffer before it
  voices,    \* var voices VoiceCollection, as loadVoices left it
  req,       \* the parsed request
  pc,        \* where the request flow stands in speechHandler / runHandler
  loc,       \* speechHandler's locals: voiceSpec, sampleRate, responseType, etag
  herr,      \* the error speechHandler returns (NotReturned until it does)
  defers,    \* speechHandler's stack of deferred Close calls
  af,        \* the AudioFile: id (non-nil), fileSize
  eaf,       \* the ExtAudioFile: ceaf (non-nil)
  sc,        \* the Channel: csc (non-nil), done (callback set)
  fin,       \* runtime finalizers: "none", "set", "ran"
  os,        \* history: per kind of handle, how often the OS handed one out and took one back
  engine,    \* the synthesizer: state, and the write callbacks it has issued
  cb,        \* the invocation of go_speechdone_cb: "idle", "sending" (blocked in done <- 1), "returned"
  done,      \* the channel done: "nil", "open", "closed"
  timer,     \* the timer of time.After: "none" (no select is waiting on it), "armed", "fired"
  observed,  \* history: the cases the select of the completion wait has taken
  client     \* what has been sent to the client's http.ResponseWriter

bufVars == <<rb, wlog, ret>>

resVars == <<af, eaf, sc, fin, os>>

envVars == <<engine, cb, done, timer>>

reqVars == <<voices, req, pc, loc, herr, defers, observed, client>>

vars == <<rb, wlog, ret, voices, req, pc, loc, herr, defers, af, eaf, sc, fin, os,
          engine, cb, done, timer, observed, client>>

\* the kinds of per-request resources
Res == {"af", "eaf", "sc"}

NoRet == [op |-> "none", n |-> 0, err |-> "nil", off |-> 0, p |-> <<>>, pre |-> ResponseBuffer]

NoResponse ==
  [n |-> 0, status |-> 0, header |-> NoHeader, body |-> <<>>, msg |-> "", via |-> "none",
   calls |-> <<>>]

\* one request entering runHandler: req.ParseForm() done, var rb ResponseBuffer
\* declared, fn about to be called (pc names the handler's first step)
InitAt(registries, requests, entries) ==
  /\ rb = ResponseBuffer
  /\ wlog = <<>>
  /\ ret = NoRet
  /\ voices \in registries
  /\ req \in requests
  /\ pc \in entries
  /\ loc = [voiceSpec |-> NilSpec, sampleRate |-> 0, responseType |-> "", newFileFunc |-> "",
            etag |-> Str("")]
  /\ herr = NotReturned
  /\ defers = <<>>
  /\ af = [id |-> FALSE, fileSize |-> 0, newFileFunc |-> ""]
  /\ eaf = [ceaf |-> FALSE]
  /\ sc = [csc |-> FALSE, done |-> FALSE]
  /\ fin = [r \in Res |-> "none"]
  /\ os = [r \in Res |-> [acq |-> 0, rel |-> 0]]
  /\ engine = [state |-> "idle", writes |-> 0]
  /\ cb = "idle"
  /\ done = "nil"
  /\ timer = "none"
  /\ observed = {}
  /\ client = NoResponse

\* one request for /say entering runHandler
InitRequest(registries, requests) == InitAt(registries, requests, {"resolve"})

Init == InitRequest(Registries, Requests)

\* ------------------------------------------------- ResponseBuffer calls
\* one call rb.WriteAt(p, off) with off >= 0
BufWriteAt ==
  /\ Len(wlog) < MaxWrites
  /\ \E off \in 0..MaxOff, p \in SlicesUpTo(MaxData) :
       LET r == WriteAt(rb, p, off)
       IN /\ rb' = r.rb
          /\ wlog' = Append(wlog, [op |-> "WriteAt", off |-> off, p |-> p])
          /\ ret' = [op |-> "WriteAt", n |-> r.n, err |-> r.err, off |-> off, p |-> p, pre |-> rb]
  /\ UNCHANGED <<reqVars, resVars, envVars>>

\* one call rb.Write(p)
BufWrite ==
  /\ Len(wlog) < MaxWrites
  /\ \E p \in SlicesUpTo(MaxData) :
       LET r == Write(rb, p)
       IN /\ rb' = r.rb
          /\ wlog' = Append(wlog, [op |-> "Write", off |-> rb.len, p |-> p])
          /\ ret' = [op |-> "Write", n |-> r.n, err |-> r.err, off |-> rb.len, p |-> p, pre |-> rb]
  /\ UNCHANGED <<reqVars, resVars, envVars>>

NextBuf ==
  \/ BufWriteAt
  \/ BufWrite

\* a lone ResponseBuffer (no request running) under arbitrary write calls
InitBuf ==
  /\ Init
  /\ voices = VoiceCollection(<<Fred, Hysterical>>)
  /\ req = [text |-> "", voice |-> "", gender |-> "", lang |-> "", samplerate |-> "",
            method |-> "GET", attachment |-> "a.wav", type |-> "", accept |-> "", inm |-> Str("")]

SpecBuf == InitBuf /\ [][NextBuf]_vars

\* ------------------------------- ResponseBuffer calls, reads included
\* the slices, offsets and sizes the calls of SpecRW are made with
RWData == {<<>>, <<1>>, <<0, 1>>}

RWOffs == {-1, 0, 2}

RWSizes == {0, 1, 2}

ReadAtOffs == -1..(MaxLen + 1)

SeekOffsets == {MinInt, -1, 0, 1, MaxInt}

Whences == {0, 1, 2, 3}

\* In SpecRW wlog holds the run of Read calls made since the cursor was last
\* set otherwise: the cursor before each call and the bytes it delivered.
\* one call rb.Read(data) with len(data) = size
RWRead ==
  /\ Len(wlog) < MaxReads
  /\ \E size \in RWSizes :
       LET r == Read(rb, size)
       IN /\ rb' = r.rb
          /\ wlog' = Append(wlog, [op |-> "Read", off |-> rb.readOfs, p |-> r.data])
          /\ ret' = [op |-> "Read", n |-> r.n, err |-> r.err, off |-> rb.readOfs,
                     p |-> r.data, pre |-> rb, size |-> size]
  /\ UNCHANGED <<reqVars, resVars, envVars>>

\* one call rb.Seek(offset, whence)
RWSeek ==
  /\ \E offset \in SeekOffsets, whence \in Whences :
       LET r == Seek(rb, offset, whence)
       IN /\ rb' = r.rb
          /\ ret' = [op |-> "Seek", n |-> r.n, err |-> r.err, off |-> offset,
                     p |-> <<>>, pre |-> rb, whence |-> whence]
  /\ wlog' = <<>>
  /\ UNCHANGED <<reqVars, resVars, envVars>>

\* one call rb.Write(p)
RWWrite ==
  /\ \E p \in RWData :
       LET r == Write(rb, p)
       IN /\ r.rb.len <= MaxLen
          /\ rb' = r.rb
          /\ ret' = [op |-> "Write", n |-> r.n, err |-> r.err, off |-> rb.len, p |-> p, pre |-> rb]
  /\ wlog' = <<>>
  /\ UNCHANGED <<reqVars, resVars, envVars>>

\* one call rb.WriteAt(p, off), any off
RWWriteAt ==
  /\ \E off \in RWOffs, p \in RWData :
       LET r == WriteAt(rb, p, off)
       IN /\ r.rb.len <= MaxLen
          /\ rb' = r.rb
          /\ ret' = [op |-> "WriteAt", n |-> r.n, err |-> r.err, off |-> off, p |-> p, pre |-> rb]
  /\ wlog' = <<>>
  /\ UNCHANGED <<reqVars, resVars, envVars>>

\* one call rb.ReadAt(p, off) with len(p) = size, any off
RWReadAt ==
  /\ \E off \in ReadAtOffs, size \in RWSizes :
       LET r == ReadAt(rb, size, off)
       IN ret' = [op |-> "ReadAt", n |-> r.n, err |-> r.err, off |-> off,
                  p |-> r.data, pre |-> rb, size |-> size]
  /\ UNCHANGED <<rb, wlog, reqVars, resVars, envVars>>

NextRW ==
  \/ RWRead
  \/ RWSeek
  \/ RWWrite
  \/ RWWriteAt
  \/ RWReadAt

\* a lone ResponseBuffer under arbitrary calls of its five data methods
SpecRW == InitBuf /\ [][NextRW]_vars

\* ---------------------------------------------------- speechHandler steps
\* `return e` in speechHandler: the deferred calls run next
Return(e) ==
  /\ herr' = e
  /\ pc' = "defer"

\* lines 142-187: the text check and the voice resolution
ResolveVoice ==
  /\ pc = "resolve"
  /\ LET r == resolveVoice(voices, req)
     IN IF r.err = NilErr
          THEN /\ loc' = [loc EXCEPT !.voiceSpec = r.spec]
               /\ pc' = "negotiate"
               /\ herr' = herr
          ELSE /\ Return(r.err)
               /\ loc' = loc
  /\ UNCHANGED <<bufVars, voices, req, defers, observed, client, resVars, envVars>>

\* fmt.Sprintf("attachment; filename=\"%s\"", attachmentName): the header value
Disposition(attachmentName) == [disposition |-> "attachment", filename |-> attachmentName]

\* a handler that honours the attachment parameter for every method
setDispositionAnyMethod(r, h) ==
  IF r.attachment # ""
    THEN Set(h, "Content-Disposition", Disposition(r.attachment))
    ELSE h

\* speechHandler lines 205-210: the headers h after the attachment check
setDisposition(r, h) ==
  IF r.method = "POST"
    THEN IF r.attachment # ""
           THEN Set(h, "Content-Disposition", Disposition(r.attachment))
           ELSE h
    ELSE h

\* lines 189-229: sample rate, Content-Disposition, response type, Content-Type
NegotiateType ==
  /\ pc = "negotiate"
  /\ LET h1 == setDisposition(req, rb.header)
         responseType == responseTypeOf(req)
     IN /\ rb' = [rb EXCEPT !.header = Set(h1, "Content-Type", Str(responseType))]
        /\ loc' = [loc EXCEPT !.sampleRate = sampleRateOf(req.samplerate),
                              !.responseType = responseType,
                              !.newFileFunc = newFileFuncOf(req)]
  /\ pc' = IF useEtag THEN "etag" ELSE "newfile"
  /\ UNCHANGED <<wlog, ret, voices, req, herr, defers, observed, client, resVars, envVars>>

\* lines 231-249: the Etag header and the not-modified short cut
CheckEtag ==
  /\ pc = "etag"
  /\ LET etag == Etag(loc.sampleRate, loc.voiceSpec, loc.responseType, req.text)
     IN /\ loc' = [loc EXCEPT !.etag = etag]
        /\ IF checkEtagDone(req, etag)
             THEN /\ rb' = [rb EXCEPT !.header = Set(rb.header, "Etag", etag),
                                      !.status = 304]
                  /\ Return(NilErr)
             ELSE /\ rb' = [rb EXCEPT !.header = Set(rb.header, "Etag", etag)]
                  /\ pc' = "newfile"
                  /\ herr' = herr
  /\ UNCHANGED <<wlog, ret, voices, req, defers, observed, client, resVars, envVars>>

\* go_audiofile_writeproc(data, inPosition, requestCount, buffer, actualCount):
\* the buffer and af.fileSize after the callback
writeproc(b, fs, pos, p) ==
  LET r == WriteAt(b, p, pos)
  IN [rb |-> r.rb, fileSize |-> IF pos + r.n > fs THEN pos + r.n ELSE fs]

\* the container header the audio library writes at position 0
HeaderBytes == <<1>>

\* one buffer of encoded audio
AudioBytes == <<1>>

\* what a library call that may write the container header leaves behind
MayWriteHeader(b, fs) == {[rb |-> b, fileSize |-> fs], writeproc(b, fs, 0, HeaderBytes)}

\* a speechHandler that forgets `defer af.Close()`
NewFileNoDefer ==
  /\ pc = "newfile"
  /\ \/ /\ \E w \in MayWriteHeader(rb, af.fileSize) :
             /\ rb' = w.rb
             /\ af' = [id |-> TRUE, fileSize |-> w.fileSize, newFileFunc |-> loc.newFileFunc]
        /\ fin' = [fin EXCEPT !["af"] = "set"]
        /\ os' = [os EXCEPT !["af"].acq = @ + 1]
        /\ defers' = defers
        /\ pc' = "extaudiofile"
        /\ herr' = herr
     \/ /\ Return(PlainErr("OSStatus"))
        /\ UNCHANGED <<rb, af, fin, os, defers>>
  /\ UNCHANGED <<wlog, ret, voices, req, loc, observed, client, eaf, sc, envVars>>

\* lines 251-255: af, err := newFileFunc(f, rate, 1, 16); defer af.Close()
\* (NewOutputWaveFile: AudioFileInitializeWithCallbacks, then SetFinalizer)
NewFile ==
  /\ pc = "newfile"
  /\ \/ /\ \E w \in MayWriteHeader(rb, af.fileSize) :
             /\ rb' = w.rb
             /\ af' = [id |-> TRUE, fileSize |-> w.fileSize, newFileFunc |-> loc.newFileFunc]
        /\ fin' = [fin EXCEPT !["af"] = "set"]
        /\ os' = [os EXCEPT !["af"].acq = @ + 1]
        /\ defers' = Append(defers, "af")
        /\ pc' = "extaudiofile"
        /\ herr' = herr
     \/ /\ Return(PlainErr("OSStatus"))
        /\ UNCHANGED <<rb, af, fin, os, defers>>
  /\ UNCHANGED <<wlog, ret, voices, req, loc, observed, client, eaf, sc, envVars>>

\* a handler whose deferred eaf.Close() runs after its af.Close()
ExtAudioFileDeferredLast ==
  /\ pc = "extaudiofile"
  /\ \/ /\ eaf' = [ceaf |-> TRUE]
        /\ fin' = [fin EXCEPT !["eaf"] = "set"]
        /\ os' = [os EXCEPT !["eaf"].acq = @ + 1]
        /\ defers' = <<"eaf">> \o defers
        /\ pc' = "newchannel"
        /\ herr' = herr
     \/ /\ Return(PlainErr("OSStatus"))
        /\ UNCHANGED <<eaf, fin, os, defers>>
  /\ UNCHANGED <<bufVars, voices, req, loc, observed, client, af, sc, envVars>>

\* lines 257-261: eaf, err := af.ExtAudioFile(); defer eaf.Close()
ExtAudioFile ==
  /\ pc = "extaudiofile"
  /\ \/ /\ eaf' = [ceaf |-> TRUE]
        /\ fin' = [fin EXCEPT !["eaf"] = "set"]
        /\ os' = [os EXCEPT !["eaf"].acq = @ + 1]
        /\ defers' = Append(defers, "eaf")
        /\ pc' = "newchannel"
        /\ herr' = herr
     \/ /\ Return(PlainErr("OSStatus"))
        /\ UNCHANGED <<eaf, fin, os, defers>>
  /\ UNCHANGED <<bufVars, voices, req, loc, observed, client, af, sc, envVars>>

\* lines 263-267: sc, err := mactts.NewChannel(voiceSpec); defer sc.Close()
\* NewChannel fails in NewSpeechChannel, or after it (and then disposes of the
\* channel itself), or succeeds and sets the finalizer
NewChannel ==
  /\ pc = "newchannel"
  /\ \/ /\ sc' = [sc EXCEPT !.csc = TRUE]
        /\ fin' = [fin EXCEPT !["sc"] = "set"]
        /\ os' = [os EXCEPT !["sc"].acq = @ + 1]
        /\ defers' = Append(defers, "sc")
        /\ pc' = "setextaudiofile"
        /\ herr' = herr
     \/ /\ Return(PlainErr("OSErr"))
        /\ UNCHANGED <<sc, fin, os, defers>>
     \/ /\ Return(PlainErr("OSErr"))
        /\ os' = [os EXCEPT !["sc"].acq = @ + 1, !["sc"].rel = @ + 1]
        /\ UNCHANGED <<sc, fin, defers>>
  /\ UNCHANGED <<bufVars, voices, req, loc, observed, client, af, eaf, envVars>>

\* lines 269-271: sc.SetExtAudioFile(eaf)
SetExtAudioFile ==
  /\ pc = "setextaudiofile"
  /\ \/ /\ pc' = "setdone"
        /\ herr' = herr
     \/ Return(PlainErr("OSErr"))
  /\ UNCHANGED <<bufVars, voices, req, loc, defers, observed, client, resVars, envVars>>

\* a handler that makes the channel but leaves the registration of the
\* callback for after the start
SetDoneSkip ==
  /\ pc = "setdone"
  /\ done' = "open"
  /\ \/ /\ sc' = sc
        /\ pc' = "speak"
        /\ herr' = herr
     \/ /\ Return(PlainErr("OSErr"))
        /\ sc' = sc
  /\ UNCHANGED <<bufVars, voices, req, loc, defers, observed, client, af, eaf, fin, os,
                 engine, cb, timer>>

\* lines 273-280: done := make(chan int); sc.SetDone(func() { done <- 1; close(done) })
SetDone ==
  /\ pc = "setdone"
  /\ done' = "open"
  /\ \/ /\ sc' = [sc EXCEPT !.done = TRUE]
        /\ pc' = "speak"
        /\ herr' = herr
     \/ /\ Return(PlainErr("OSErr"))
        /\ sc' = sc
  /\ UNCHANGED <<bufVars, voices, req, loc, defers, observed, client, af, eaf, fin, os,
                 engine, cb, timer>>

\* lines 282-285: sc.SpeakString(msg); on success the select is entered and
\* time.After arms the timer; on an error the handler returns nil
SpeakString ==
  /\ pc = "speak"
  /\ \/ /\ engine' = [engine EXCEPT !.state = "speaking"]
        /\ timer' = "armed"
        /\ pc' = "wait"
        /\ herr' = herr
     \/ /\ Return(NilErr)
        /\ UNCHANGED <<engine, timer>>
  /\ UNCHANGED <<bufVars, voices, req, loc, defers, observed, client, resVars, cb, done>>

\* a wait that, once the timer has fired, still takes the pending notification
\* before it returns
WaitTimeoutDrain ==
  /\ pc = "wait"
  /\ timer = "fired"
  /\ IF cb = "sending"
       THEN /\ observed' = observed \cup {"timeout", "notification"}
            /\ cb' = "returned"
            /\ done' = "closed"
       ELSE /\ observed' = observed \cup {"timeout"}
            /\ UNCHANGED <<cb, done>>
  /\ timer' = "none"
  /\ Return(PlainErr("timed out synthesizing speech"))
  /\ UNCHANGED <<bufVars, voices, req, loc, defers, client, resVars, engine>>

\* lines 285-286, 290: case <-done: the send of the callback is received. The
\* closure then runs close(done) and the callback returns; nothing else
\* touches done, so the closure's last step is taken with the receive
WaitDone ==
  /\ pc = "wait"
  /\ cb = "sending"
  /\ observed' = observed \cup {"notification"}
  /\ cb' = "returned"
  /\ done' = "closed"
  /\ timer' = "none"
  /\ Return(NilErr)
  /\ UNCHANGED <<bufVars, voices, req, loc, defers, client, resVars, engine>>

\* a timeout case that returns nil, as the start-failure return does
WaitTimeoutNil ==
  /\ pc = "wait"
  /\ timer = "fired"
  /\ observed' = observed \cup {"timeout"}
  /\ timer' = "none"
  /\ Return(NilErr)
  /\ UNCHANGED <<bufVars, voices, req, loc, defers, client, resVars, engine, cb, done>>

\* a select without the timeout case: the elapsed timer is left unread
WaitTimeoutNever ==
  /\ pc = "wait"
  /\ timer = "fired"
  /\ timer' = "none"
  /\ UNCHANGED <<bufVars, reqVars, resVars, engine, cb, done>>

\* lines 287-288: case <-time.After(1 * time.Minute)
WaitTimeout ==
  /\ pc = "wait"
  /\ timer = "fired"
  /\ observed' = observed \cup {"timeout"}
  /\ timer' = "none"
  /\ Return(PlainErr("timed out synthesizing speech"))
  /\ UNCHANGED <<bufVars, voices, req, loc, defers, client, resVars, engine, cb, done>>

\* --------------------------------------------------- the deferred Closes
\* what ExtAudioFileDispose leaves behind: it may flush buffered audio
MayFlushAudio(b, fs) ==
  {[rb |-> b, fileSize |-> fs], writeproc(b, fs, Max(fs, Len(HeaderBytes)), AudioBytes)}

\* the next deferred call is the Close of r
Deferred(r) ==
  /\ pc = "defer"
  /\ defers # <<>>
  /\ defers[Len(defers)] = r

\* mactts.go Channel.Close, run by `defer sc.Close()`: DisposeSpeechChannel
\* stops speech in progress, and no callback is invoked after it
ChannelClose ==
  /\ Deferred("sc")
  /\ defers' = SubSeq(defers, 1, Len(defers) - 1)
  /\ IF sc.csc
       THEN /\ os' = [os EXCEPT !["sc"].rel = @ + 1]
            /\ engine' = [engine EXCEPT
                            !.state = IF @ = "speaking" THEN "stopped" ELSE @]
            /\ sc' = [sc EXCEPT !.csc = FALSE]
            /\ fin' = [fin EXCEPT !["sc"] = "none"]
       ELSE UNCHANGED <<os, engine, sc, fin>>
  /\ UNCHANGED <<bufVars, voices, req, pc, loc, herr, observed, client, af, eaf,
                 cb, done, timer>>

\* audiofile.go ExtAudioFile.Close, run by `defer eaf.Close()`
ExtAudioFileClose ==
  /\ Deferred("eaf")
  /\ defers' = SubSeq(defers, 1, Len(defers) - 1)
  /\ IF eaf.ceaf
       THEN /\ \E w \in MayFlushAudio(rb, af.fileSize) :
                 /\ rb' = w.rb
                 /\ af' = [af EXCEPT !.fileSize = w.fileSize]
            /\ os' = [os EXCEPT !["eaf"].rel = @ + 1]
            /\ eaf' = [ceaf |-> FALSE]
       ELSE UNCHANGED <<rb, af, os, eaf>>
  /\ UNCHANGED <<wlog, ret, voices, req, pc, loc, herr, observed, client, sc, fin, envVars>>

\* an AudioFile.Close that forgets `af.id = nil`
AudioFileCloseKeepId ==
  /\ Deferred("af")
  /\ defers' = SubSeq(defers, 1, Len(defers) - 1)
  /\ IF af.id
       THEN /\ \E w \in MayWriteHeader(rb, af.fileSize) :
                 /\ rb' = w.rb
                 /\ af' = [af EXCEPT !.fileSize = w.fileSize]
            /\ os' = [os EXCEPT !["af"].rel = @ + 1]
       ELSE UNCHANGED <<rb, af, os>>
  /\ UNCHANGED <<wlog, ret, voices, req, pc, loc, herr, observed, client, eaf, sc, fin, envVars>>

\* audiofile.go AudioFile.Close, run by `defer af.Close()`: AudioFileClose
\* may rewrite the container header
AudioFileClose ==
  /\ Deferred("af")
  /\ defers' = SubSeq(defers, 1, Len(defers) - 1)
  /\ IF af.id
       THEN /\ \E w \in MayWriteHeader(rb, af.fileSize) :
                 /\ rb' = w.rb
                 /\ af' = [af EXCEPT !.id = FALSE, !.fileSize = w.fileSize]
            /\ os' = [os EXCEPT !["af"].rel = @ + 1]
       ELSE UNCHANGED <<rb, af, os>>
  /\ UNCHANGED <<wlog, ret, voices, req, pc, loc, herr, observed, client, eaf, sc, fin, envVars>>

\* speechHandler has returned to runHandler: its locals are unreachable
HandlerReturned == (pc = "defer" /\ defers = <<>>) \/ pc = "responded"

\* the garbage collector finds the handler's objects unreachable and runs the
\* finalizers still set on them, the ExtAudioFile's before the AudioFile's
\* (audiofile.go 134-138 and 119-123, mactts.go disposeSpeechChannel): each
\* releases its handle if the field is still non-nil
Finalize ==
  /\ HandlerReturned
  /\ \E r \in Res : fin[r] = "set"
  /\ fin' = [r \in Res |-> IF fin[r] = "set" THEN "ran" ELSE fin[r]]
  /\ LET runEaf == fin["eaf"] = "set" /\ eaf.ceaf
         runAf  == fin["af"] = "set" /\ af.id
         runSc  == fin["sc"] = "set" /\ sc.csc
     IN /\ os' = [r \in Res |->
                   [os[r] EXCEPT !.rel = IF (r = "eaf" /\ runEaf) \/ (r = "af" /\ runAf)
                                            \/ (r = "sc" /\ runSc)
                                         THEN @ + 1 ELSE @]]
        /\ \E w1 \in (IF runEaf THEN MayFlushAudio(rb, af.fileSize)
                       ELSE {[rb |-> rb, fileSize |-> af.fileSize]}) :
             \E w2 \in (IF runAf THEN MayWriteHeader(w1.rb, w1.fileSize) ELSE {w1}) :
               /\ rb' = w2.rb
               /\ af' = [af EXCEPT !.fileSize = w2.fileSize]
        /\ engine' = [engine EXCEPT
                        !.state = IF runSc /\ @ = "speaking" THEN "stopped" ELSE @]
  /\ UNCHANGED <<wlog, ret, reqVars, eaf, sc, cb, done, timer>>

\* ------------------------------------------- the engine and the timer
\* the synthesizer hands audio to the ExtAudioFile, which calls
\* go_audiofile_writeproc on the engine's thread
EngineWrite ==
  /\ engine.state = "speaking"
  /\ engine.writes < MaxEngineWrites
  /\ LET w == writeproc(rb, af.fileSize, Max(af.fileSize, Len(HeaderBytes)), AudioBytes)
     IN /\ rb' = w.rb
        /\ af' = [af EXCEPT !.fileSize = w.fileSize]
  /\ engine' = [engine EXCEPT !.writes = @ + 1]
  /\ UNCHANGED <<wlog, ret, reqVars, eaf, sc, fin, os, cb, done, timer>>

\* the synthesizer finishes and calls go_speechdone_cb, which calls c.done()
\* if it is set: the closure blocks in `done <- 1`
SpeechDone ==
  /\ engine.state = "speaking"
  /\ engine' = [engine EXCEPT !.state = "finished"]
  /\ cb' = IF sc.done THEN "sending" ELSE "returned"
  /\ UNCHANGED <<bufVars, reqVars, resVars, done, timer>>

\* the minute of time.After elapses while the select waits
TimerFire ==
  /\ pc = "wait"
  /\ timer = "armed"
  /\ timer' = "fired"
  /\ UNCHANGED <<bufVars, reqVars, resVars, engine, cb, done>>

\* ------------------------------------------------- runHandler's response
\* http.StatusText
StatusText(status) ==
  CASE status = 400 -> "Bad Request"
    [] status = 404 -> "Not Found"
    [] status = 500 -> "Internal Server Error"
    [] OTHER -> ""

\* handleJSONError(resp, req, status, err): what the client receives
handleJSONError(status, msg) ==
  [n |-> client.n + 1, status |-> status,
   header |-> Set(client.header, "Content-Type", Str("application/json; charset=utf-8")),
   body |-> <<>>,
   msg |-> IF status <= 500 THEN msg ELSE StatusText(status),
   via |-> "errfn",
   calls |-> client.calls \o <<"Header", "WriteHeader", "Write">>]

\* a WriteTo that writes the body before it copies headers and status: the
\* target has then sent its implicit 200 with the headers it had
WriteToBodyFirst(b) ==
  [n |-> client.n + 1,
   status |-> IF b.len > 0 THEN 200 ELSE IF b.status # 0 THEN b.status ELSE 200,
   header |-> IF b.len > 0 THEN client.header ELSE b.header @@ client.header,
   body |-> IF b.len > 0 THEN Contents(b) ELSE <<>>,
   msg |-> "",
   via |-> "WriteTo",
   calls |-> client.calls
               \o (IF b.len > 0 THEN <<"Write">> ELSE <<>>)
               \o (IF DOMAIN b.header # {} THEN <<"Header">> ELSE <<>>)
               \o (IF b.status # 0 THEN <<"WriteHeader">> ELSE <<>>)]

\* rb.WriteTo(w) on buffer b: CopyHeaders (every header, Content-Length for a
\* non-empty buffer, WriteHeader for a status that was set), then the body if
\* there is one; a target that was given no status sends 200
WriteTo(b) ==
  [n |-> client.n + 1,
   status |-> IF b.status # 0 THEN b.status ELSE 200,
   header |-> IF b.len > 0 THEN Set(b.header @@ client.header, "Content-Length", b.len)
              ELSE b.header @@ client.header,
   body |-> IF b.len > 0 THEN Contents(b) ELSE <<>>,
   msg |-> "",
   via |-> "WriteTo",
   calls |-> client.calls
               \o (IF DOMAIN b.header # {} \/ b.len > 0 THEN <<"Header">> ELSE <<>>)
               \o (IF b.status # 0 THEN <<"WriteHeader">> ELSE <<>>)
               \o (IF b.len > 0 THEN <<"Write">> ELSE <<>>)]

\* a success path that stamps Last-Modified on every response
ForwardHeadersStamp(h) ==
  Set(Set(h, "Last-Modified", Str("now")), "Accept-Ranges", Str("bytes"))

\* runHandler lines 88-93: the headers added to the handler's own headers h
ForwardHeaders(h) ==
  LET h1 == IF "Last-Modified" \notin DOMAIN h
              THEN Set(h, "Last-Modified", Str("now"))
              ELSE h
  IN Set(h1, "Accept-Ranges", Str("bytes"))

\* runHandler lines 87-94: the handler returned nil
Forward ==
  /\ pc = "defer"
  /\ defers = <<>>
  /\ herr.kind = "nil"
  /\ LET b == [rb EXCEPT !.header = ForwardHeaders(rb.header)]
     IN /\ rb' = b
        /\ client' = WriteTo(b)
  /\ pc' = "responded"
  /\ UNCHANGED <<wlog, ret, voices, req, loc, herr, defers, observed, resVars, envVars>>

\* runHandler lines 95-99: the handler returned an *httpError
FailHttp ==
  /\ pc = "defer"
  /\ defers = <<>>
  /\ herr.kind = "httpError"
  /\ client' = handleJSONError(herr.status, herr.msg)
  /\ pc' = "responded"
  /\ UNCHANGED <<bufVars, voices, req, loc, herr, defers, observed, resVars, envVars>>

\* an error branch that forwards the buffer before it reports the error
FailOtherAfterForward ==
  /\ pc = "defer"
  /\ defers = <<>>
  /\ herr.kind = "error"
  /\ LET w == WriteTo(rb)
     IN client' = [w EXCEPT !.n = @ + 1, !.msg = herr.msg, !.via = "errfn",
                            !.calls = @ \o <<"Header", "WriteHeader", "Write">>]
  /\ pc' = "responded"
  /\ UNCHANGED <<bufVars, voices, req, loc, herr, defers, observed, resVars, envVars>>

\* runHandler lines 100-103: the handler returned another error
FailOther ==
  /\ pc = "defer"
  /\ defers = <<>>
  /\ herr.kind = "error"
  /\ client' = handleJSONError(500, herr.msg)
  /\ pc' = "responded"
  /\ UNCHANGED <<bufVars, voices, req, loc, herr, defers, observed, resVars, envVars>>

Next ==
  \/ ResolveVoice
  \/ NegotiateType
  \/ CheckEtag
  \/ NewFile
  \/ ExtAudioFile
  \/ NewChannel
  \/ SetExtAudioFile
  \/ SetDone
  \/ SpeakString
  \/ WaitDone
  \/ WaitTimeout
  \/ ChannelClose
  \/ ExtAudioFileClose
  \/ AudioFileClose
  \/ Finalize
  \/ EngineWrite
  \/ SpeechDone
  \/ TimerFire
  \/ Forward
  \/ FailHttp
  \/ FailOther

Spec == Init /\ [][Next]_vars

\* one /say request, over the requests and registries of the voice resolution
InitReq == InitRequest(ReqRegistries, ReqRequests)

SpecReq == InitReq /\ [][Next]_vars

\* ================================================================ claims
\* ---- the completion wait (Spec)

\* SpeakString succeeded: the select of the completion wait was entered
WaitEntered == engine.state # "idle"

\* the select of the completion wait has returned
WaitReturned == WaitEntered /\ pc # "wait"

\* C1: every completion wait that has returned observed exactly one of
\* {notification, timeout}; while it waits, and when no wait was entered, it
\* has observed nothing; this for every interleaving of callback and timer.
C1_ExactlyOneOutcome ==
  /\ WaitReturned => (observed = {"notification"} \/ observed = {"timeout"})
  /\ ~WaitReturned => observed = {}

\* C1 witness: the wait returned by timeout while the callback was ready to
\* send, i.e. both cases of the select were ready and one was taken.
C1_Witness == WaitReturned /\ observed = {"timeout"} /\ cb = "sending"

\* C2 (as claimed): once the request has been answered after a timeout, no
\* completion notification is pending and none can be invoked any more. This
\* is the reading most favourable to the code (the channel is released by a
\* deferred Close, after the select has returned); it is violated: the
\* callback may be blocked in its send when the timeout case is taken.
C2_NoLateNotification ==
  (observed = {"timeout"} /\ pc = "responded") =>
    (cb # "sending" /\ engine.state # "speaking")

\* C3: once runHandler has read the buffer (rb.WriteTo), no producer can
\* write into it any more: the engine is not speaking, both audio handles are
\* closed, and no later step changes the buffer's bytes.
C3_WritesBeforeRead ==
  /\ [](client.via = "WriteTo" => (engine.state # "speaking" /\ ~af.id /\ ~eaf.ceaf))
  /\ [][client.via = "WriteTo" => (rb'.arr = rb.arr /\ rb'.len = rb.len)]_vars

\* C3 witness: the buffer was read after the engine and the closing encoder
\* had written into it.
C3_Witness == client.via = "WriteTo" /\ engine.writes > 0 /\ rb.len > 1

\* C4: when speechHandler has returned, every handle the OS handed out was
\* released exactly once, at most one of each kind was handed out, and at no
\* time was a handle released that had not been handed out.
C4_ReleasedExactlyOnce ==
  /\ \A r \in Res : os[r].rel <= os[r].acq /\ os[r].acq <= 1
  /\ HandlerReturned => \A r \in Res : os[r].rel = os[r].acq

\* C4 witness: a timeout with all three resources acquired, after the
\* finalizers have run.
C4_Witness ==
  /\ pc = "responded"
  /\ observed = {"timeout"}
  /\ \A r \in Res : os[r].acq = 1
  /\ fin["af"] = "ran"

\* the request reached the cache check and its If-None-Match value equals
\* the computed Etag or is the wildcard
EtagHit == loc.etag # Str("") /\ (req.inm = loc.etag \/ req.inm = Str("*"))

\* C5: with ETags enabled, a request whose If-None-Match equals the computed
\* Etag or is "*" (the Etag is computed for requests that passed validation
\* and voice resolution) never writes a byte to the buffer, opens no encoder
\* and creates no channel, and is answered 304 with an empty body.
C5_NotModified ==
  (useEtag /\ EtagHit) =>
    /\ rb.len = 0 /\ rb.arr = <<>>
    /\ \A r \in Res : os[r].acq = 0
    /\ engine.state = "idle" /\ engine.writes = 0
    /\ pc \in {"defer", "responded"}
    /\ pc = "responded" => (client.status = 304 /\ client.body = <<>> /\ client.n = 1)

\* C5 witness: a request answered 304 because its validator equals the Etag.
C5_Witness == pc = "responded" /\ client.status = 304 /\ req.inm = loc.etag

\* SetDone succeeded and SpeakString returned an error
StartFailed == sc.done /\ engine.state = "idle" /\ pc \in {"defer", "responded"}

\* C6 (as claimed): if SpeakString reports an error the client receives an
\* error status through the error function, not the buffered response.
C6_StartFailureFails ==
  (StartFailed /\ pc = "responded") => (client.via = "errfn" /\ client.status >= 400)

\* C7: a request whose completion wait timed out is answered 500 with the
\* timeout as the reason, by the error function alone: no header, status or
\* byte of the ResponseBuffer reaches the client.
C7_TimeoutFails ==
  (observed = {"timeout"} /\ pc = "responded") =>
    /\ client.status = 500
    /\ client.msg = "timed out synthesizing speech"
    /\ client.via = "errfn" /\ client.n = 1
    /\ client.body = <<>>
    /\ DOMAIN client.header = {"Content-Type"}

\* C7 witness: a timeout answered while the buffer held audio and headers.
C7_Witness ==
  /\ observed = {"timeout"} /\ pc = "responded"
  /\ rb.len > 0 /\ "Etag" \in DOMAIN rb.header

\* ---- the ResponseBuffer (SpecBuf)

\* the write calls ws with every call moved before the calls of greater
\* offset (a stable insertion sort by offset)
RECURSIVE SortByOff(_)
SortByOff(ws) ==
  IF ws = <<>> THEN <<>>
  ELSE LET rest == SortByOff(SubSeq(ws, 1, Len(ws) - 1))
           w    == ws[Len(ws)]
           k    == Cardinality({i \in 1..Len(rest) : rest[i].off <= w.off})
       IN SubSeq(rest, 1, k) \o <<w>> \o SubSeq(rest, k + 1, Len(rest))

\* the reference semantics of one positional write on a zero-extended
\* byte sequence
RefWrite(c, w) ==
  [i \in 1..Max(Len(c), w.off + Len(w.p)) |->
     IF i > w.off /\ i <= w.off + Len(w.p) THEN w.p[i - w.off]
     ELSE IF i <= Len(c) THEN c[i] ELSE 0]

\* the writes ws applied in sequence to an empty (all-zero) buffer
RECURSIVE RefApply(_)
RefApply(ws) ==
  IF ws = <<>> THEN <<>>
  ELSE RefWrite(RefApply(SubSeq(ws, 1, Len(ws) - 1)), ws[Len(ws)])

\* what is read back from b equals c: by Read from cursor 0 and by ReadAt
\* over every range
ReadsBack(b, c) ==
  /\ b.len = Len(c)
  /\ Read([b EXCEPT !.readOfs = 0], b.len).data = c
  /\ \A off \in 0..b.len, n \in 0..b.len :
       ReadAt(b, n, off).data = SubSeq(c, off + 1, Min(off + n, Len(c)))

\* only WriteAt calls have been issued
OnlyWriteAt == \A i \in 1..Len(wlog) : wlog[i].op = "WriteAt"

\* no two of the writes issued cover a common byte position
DisjointWrites ==
  \A i, j \in 1..Len(wlog) :
    i < j => (wlog[i].off + Len(wlog[i].p) <= wlog[j].off
              \/ wlog[j].off + Len(wlog[j].p) <= wlog[i].off)

\* C8 (as claimed): after any WriteAt calls, what is read back equals the
\* writes applied in increasing offset order to an all-zero buffer.
C8_AnyOrderEqualsSorted == OnlyWriteAt => ReadsBack(rb, RefApply(SortByOff(wlog)))

\* C8 (amended): after WriteAt calls whose byte ranges are pairwise disjoint,
\* issued in any order, what is read back equals the writes applied in
\* increasing offset order to an all-zero buffer.
C8_DisjointEqualsSorted ==
  (OnlyWriteAt /\ DisjointWrites) => ReadsBack(rb, RefApply(SortByOff(wlog)))

\* C8 witness: two disjoint non-empty writes issued in decreasing offset
\* order, the second one reallocating the buffer.
C8_Witness ==
  /\ OnlyWriteAt /\ DisjointWrites /\ Len(wlog) = 2
  /\ wlog[1].off > wlog[2].off
  /\ wlog[1].p = <<1>> /\ wlog[2].p = <<1>>

\* C9: every WriteAt(p, off) returns (len(p), nil) and leaves the length at
\* max(previous length, off + len(p)); the length never decreases and is at
\* least off + len(p) for every write issued so far.
C9_WriteAtLength ==
  /\ ret.op = "WriteAt" =>
       /\ ret.n = Len(ret.p) /\ ret.err = "nil"
       /\ rb.len = Max(ret.pre.len, ret.off + Len(ret.p))
  /\ rb.len >= ret.pre.len
  /\ \A i \in 1..Len(wlog) : rb.len >= wlog[i].off + Len(wlog[i].p)

\* C9 witness: a WriteAt beyond the end after an earlier write.
C9_Witness ==
  /\ ret.op = "WriteAt" /\ ret.pre.len > 0
  /\ ret.off > ret.pre.len /\ Len(ret.p) > 0

\* C10: a Write or WriteAt keeps every byte below the old length that it
\* does not cover, also when it reallocates, and the capacity is never below
\* the length.
C10_GrowthTransparent ==
  /\ cap(rb) >= rb.len
  /\ \A i \in 1..ret.pre.len :
       ~(i > ret.off /\ i <= ret.off + Len(ret.p)) => rb.arr[i] = ret.pre.arr[i]

\* C10 witness: a write that reallocated a buffer holding a non-zero byte it
\* did not cover.
C10_Witness ==
  /\ cap(rb) > cap(ret.pre) /\ ret.pre.len > 0
  /\ \E i \in 1..ret.pre.len :
       /\ ~(i > ret.off /\ i <= ret.off + Len(ret.p))
       /\ ret.pre.arr[i] = 1

\* ---- the read side of the ResponseBuffer (SpecRW)
\* C11: after any Read, Seek, Write, WriteAt and ReadAt calls the read cursor
\* is at least 0 and at most the logical length.
C11_CursorInRange == 0 <= rb.readOfs /\ rb.readOfs <= rb.len

\* C11 witness: a Seek past the end of a non-empty buffer, relative to its
\* end, left the cursor at the end.
C11_Witness ==
  /\ ret.op = "Seek" /\ ret.whence = 2 /\ ret.off = 1
  /\ ret.pre.len > 0 /\ ret.pre.readOfs < ret.pre.len
  /\ rb.readOfs = rb.len

\* C12: ReadAt(p, off) signals end-of-data exactly when off is at or past the
\* logical length and p is not empty, never for an empty p, and at an offset
\* inside the buffer it copies min(len(p), length - off) bytes from off on.
C12_ReadAtEndOfData ==
  ret.op = "ReadAt" =>
    /\ (ret.err = "EOF") <=> (ret.off >= ret.pre.len /\ ret.size > 0)
    /\ ret.size = 0 => ret.err # "EOF"
    /\ (0 <= ret.off /\ ret.off < ret.pre.len) =>
         /\ ret.err = "nil"
         /\ ret.n = Min(ret.size, ret.pre.len - ret.off)
         /\ ret.p = SubSeq(Contents(ret.pre), ret.off + 1, ret.off + ret.n)
    /\ rb = ret.pre

\* C12 witness: a ReadAt inside the buffer that asks for more bytes than are
\* left and gets the rest, without end-of-data.
C12_Witness ==
  /\ ret.op = "ReadAt" /\ ret.off > 0 /\ ret.off < ret.pre.len
  /\ ret.size > ret.pre.len - ret.off /\ ret.n = 1 /\ ret.p = <<1>>

\* the bytes a run of Read calls delivered, in order
RECURSIVE Delivered(_)
Delivered(ws) == IF ws = <<>> THEN <<>> ELSE ws[1].p \o Delivered(Tail(ws))

\* C13: Read(data) copies n = min(len(data), length - cursor) bytes from the
\* cursor on, advances the cursor by n and signals end-of-data exactly when
\* the cursor has then reached the length; the Reads made from cursor 0 on
\* deliver the bytes before the cursor, each once and in order (hence the
\* whole buffer once end-of-data is signalled).
C13_ReadSequential ==
  /\ ret.op = "Read" =>
       /\ ret.n = Min(ret.size, ret.pre.len - ret.pre.readOfs)
       /\ ret.p = SubSeq(Contents(ret.pre), ret.pre.readOfs + 1, ret.pre.readOfs + ret.n)
       /\ rb.readOfs = ret.pre.readOfs + ret.n
       /\ (ret.err = "EOF") <=> (rb.readOfs = rb.len)
       /\ Contents(rb) = Contents(ret.pre)
  /\ (wlog # <<>> /\ wlog[1].op = "Read" /\ wlog[1].off = 0) =>
       /\ Delivered(wlog) = SubSeq(Contents(rb), 1, rb.readOfs)
       /\ (ret.op = "Read" /\ ret.err = "EOF") => Delivered(wlog) = Contents(rb)

\* C13 witness: two non-empty Reads from cursor 0 delivered a buffer of three
\* bytes, the second one signalling end-of-data.
C13_Witness ==
  /\ Len(wlog) = 2 /\ wlog[1].op = "Read" /\ wlog[1].off = 0
  /\ Len(wlog[1].p) = 2 /\ Len(wlog[2].p) = 1
  /\ ret.op = "Read" /\ ret.err = "EOF" /\ rb.len = 3

\* base + offset clamped to [0, length], in unbounded integers
Clamp(x, length) == IF x < 0 THEN 0 ELSE IF x > length THEN length ELSE x

\* C14 (as claimed): Seek(offset, whence) sets the cursor to
\* clamp(base + offset, 0, length), base being 0, the cursor or the length
\* for whence 0, 1, 2, and returns the new cursor and no error.
C14_SeekClamps ==
  (ret.op = "Seek" /\ ret.whence \in {0, 1, 2}) =>
    LET base == CASE ret.whence = 0 -> 0
                  [] ret.whence = 1 -> ret.pre.readOfs
                  [] ret.whence = 2 -> ret.pre.len
    IN /\ rb.readOfs = Clamp(base + ret.off, ret.pre.len)
       /\ ret.n = rb.readOfs
       /\ ret.err = "nil"

\* ---- Write and WriteAt (SpecBuf)
\* C15: Write(p) leaves the same contents and length and returns the same
\* count as WriteAt(p, length) does on the same buffer.
C15_WriteIsWriteAtEnd ==
  ret.op = "Write" =>
    LET w == WriteAt(ret.pre, ret.p, ret.pre.len)
    IN /\ Contents(rb) = Contents(w.rb)
       /\ rb.len = w.rb.len
       /\ ret.n = w.n /\ ret.err = w.err

\* C15 witness: a non-empty Write to a non-empty buffer that reallocated it.
C15_Witness ==
  /\ ret.op = "Write" /\ ret.pre.len > 0 /\ Len(ret.p) > 0
  /\ cap(ret.pre) < ret.pre.len + Len(ret.p)
  /\ \E i \in 1..ret.pre.len : ret.pre.arr[i] = 1

\* ---- voice resolution (SpecReq)
\* the voice resolution has succeeded
Resolved == loc.voiceSpec # NilSpec

\* record i of the registry satisfies the query (gender token, lang)
Satisfies(i, tok, lang) ==
  /\ voices.voices[i].Locale = (IF lang = "" THEN "en_US" ELSE lang)
  /\ tok = "" \/ voices.voices[i].gender = GenderOf(tok)

\* the registry holds a record of that name
HasName(name) == \E i \in 1..Len(voices.voices) : voices.voices[i].Name = name

ValidGender == req.gender \in {"", "male", "female", "neuter"}

\* C16: the resolved voice is the record named by voice if voice is given,
\* whatever gender and lang are; else the result of Match(gender, lang) if
\* gender or lang is given; else the record named Fred.
C16_ResolutionPriority ==
  Resolved =>
    IF req.voice # ""
      THEN \E i \in 1..Len(voices.voices) :
             voices.voices[i].Name = req.voice /\ loc.voiceSpec = voices.voices[i].spec
    ELSE IF req.gender # "" \/ req.lang # ""
      THEN ValidGender /\ loc.voiceSpec = Match(voices, GenderOf(req.gender), req.lang).spec
    ELSE \E i \in 1..Len(voices.voices) :
           voices.voices[i].Name = "Fred" /\ loc.voiceSpec = voices.voices[i].spec

\* C16 witness: voice=Hysterical with gender=male and a lang no record has
\* resolved to Hysterical, in a registry where Fred would match the gender.
C16_Witness ==
  /\ req.voice = "Hysterical" /\ req.gender = "male" /\ req.lang = "fr_FR"
  /\ HasName("Fred") /\ loc.voiceSpec = Hysterical.spec /\ pc = "responded"

\* a resolution step of the request fails: the named voice is absent, or the
\* supplied gender and/or lang match no record, or nothing is supplied and
\* there is no Fred
ResolutionFails ==
  /\ req.text # ""
  /\ \/ req.voice # "" /\ ~HasName(req.voice)
     \/ /\ req.voice = "" /\ ValidGender /\ (req.gender # "" \/ req.lang # "")
        /\ \A i \in 1..Len(voices.voices) : ~Satisfies(i, req.gender, req.lang)
     \/ req.voice = "" /\ req.gender = "" /\ req.lang = "" /\ ~HasName("Fred")

\* C17: a request one of whose resolution steps fails is answered 404, without
\* trying a lower-priority step, and computes no Etag, writes nothing to the
\* buffer and acquires no encoder and no engine channel.
C17_NoFallThrough ==
  ResolutionFails =>
    /\ ~Resolved /\ loc.etag = Str("")
    /\ rb = ResponseBuffer
    /\ engine.state = "idle" /\ \A r \in Res : os[r].acq = 0
    /\ pc # "resolve" => (herr.kind = "httpError" /\ herr.status = 404)
    /\ pc = "responded" => (client.status = 404 /\ client.via = "errfn")

\* C17 witness: gender=female&lang=fr_FR matches no record of a registry that
\* has Fred and a record named Hysterical, and was answered 404.
C17_Witness ==
  /\ req.text = "hi" /\ req.voice = "" /\ req.gender = "female" /\ req.lang = "fr_FR"
  /\ HasName("Fred") /\ HasName("Hysterical")
  /\ pc = "responded" /\ client.status = 404

C19_InvalidInputRejected ==
  (pc = "responded" /\ (req.text = "" \/ ~ValidGender)) =>
    (client.status = 400 /\ client.via = "errfn")

\* ---- the not-modified check (Spec)
\* C20: checkEtagDone is true iff an If-None-Match value was supplied and it
\* equals the computed Etag or is "*"; the handler sets status 304 exactly
\* then.
C20_CheckEtagDone ==
  loc.etag # Str("") =>
    LET hit == req.inm # Str("") /\ (req.inm = loc.etag \/ req.inm = Str("*"))
    IN /\ checkEtagDone(req, loc.etag) <=> hit
       /\ (rb.status = 304) <=> hit

\* C20 witness: a validator was supplied that is neither the Etag nor the
\* wildcard, and the request went on to open the encoder.
C20_Witness ==
  /\ loc.etag # Str("") /\ req.inm # Str("") /\ req.inm # Str("*")
  /\ req.inm # loc.etag /\ os["af"].acq = 1

\* ---- request parameters and response headers (SpecNeg)

\* a /say request with every optional parameter absent
NegBase ==
  [text |-> "hi", voice |-> "", gender |-> "", lang |-> "", samplerate |-> "",
   method |-> "GET", attachment |-> "", type |-> "", accept |-> "", inm |-> Str("")]

\* samplerate values: the six supported ones, the default written out, a
\* number outside the set, a supported number spelt otherwise, a non-number,
\* absent
NegSampleRateTokens ==
  {"", "8000", "11025", "16000", "32000", "44100", "48000", "22050", "9000", "08000", "abc"}

NegTypeTokens == {"", "audio/mp4", "audio/x-wav", "text/plain"}

NegAcceptTokens ==
  {"", "audio/mp4", "audio/wave", "audio/wav", "audio/x-wav", "audio/vnd.wav",
   "*/*", "audio/*", "text/html"}

NegMethods == {"GET", "POST", "PUT"}

\* the requests of SpecNeg: one family per group of parameters
NegRequests ==
  {[NegBase EXCEPT !.samplerate = t] : t \in NegSampleRateTokens}
  \cup {[NegBase EXCEPT !.type = t, !.accept = a] : t \in NegTypeTokens, a \in NegAcceptTokens}
  \cup {[NegBase EXCEPT !.method = m, !.attachment = a, !.inm = v] :
           m \in NegMethods, a \in {"", "a.wav"}, v \in {Str(""), Str("*")}}
  \cup {[NegBase EXCEPT !.text = t, !.voice = v, !.gender = g, !.lang = l] :
           t \in {"hi", "ho"}, v \in {"", "Hysterical", "Fred"},
           g \in {"", "female", "male"}, l \in {"", "en_US"}}

InitNeg == InitRequest(Registries, NegRequests)

\* one /say request, over the requests that vary the sample rate, the type
\* negotiation, the attachment and the identity of the voice
SpecNeg == InitNeg /\ [][Next]_vars

\* the request r passes the voice resolution of the loaded registry
Resolves(r) == resolveVoice(voices, r).err = NilErr

\* the tuple (resolved sample rate, resolved voice identity, response mime
\* type, text) of request r
EtagTuple(r) ==
  <<sampleRateOf(r.samplerate), resolveVoice(voices, r).spec, responseTypeOf(r), r.text>>

\* the ETag the handler computes for request r
EtagOf(r) ==
  Etag(sampleRateOf(r.samplerate), resolveVoice(voices, r).spec, responseTypeOf(r), r.text)

\* the running request was answered through the buffer with an Etag header
EtagSent ==
  pc = "responded" /\ client.via = "WriteTo" /\ "Etag" \in DOMAIN client.header

\* C21: the ETag a /say request receives is the one computed from its tuple
\* (resolved sample rate, resolved voice identity, response mime type, text)
\* alone, whatever the engine, the timer and the callbacks did; and for every
\* other request that resolves on the same registry the two ETags are equal
\* if and only if the two tuples are equal.
C21_EtagIffSameTuple ==
  EtagSent =>
    /\ client.header["Etag"] = EtagOf(req)
    /\ \A r2 \in NegRequests :
         Resolves(r2) => ((EtagOf(r2) = client.header["Etag"]) <=> (EtagTuple(r2) = EtagTuple(req)))

\* C21 witness: an answered request, another request that differs in method
\* and attachment and shares its ETag, one that names the voice the first
\* resolves to by default and shares it, and one with another ETag.
C21_Witness ==
  /\ EtagSent
  /\ \E r2 \in NegRequests :
       /\ r2.method # req.method /\ r2.attachment # req.attachment
       /\ Resolves(r2) /\ EtagOf(r2) = client.header["Etag"]
  /\ \E r3 \in NegRequests :
       /\ r3.voice # req.voice /\ Resolves(r3) /\ EtagOf(r3) = client.header["Etag"]
  /\ \E r4 \in NegRequests : Resolves(r4) /\ EtagOf(r4) # client.header["Etag"]

\* ---- the two handlers, panics and the shared registry (SpecServe)

\* json.Marshal of struct{Voices []Voice}: an opening byte, one byte per
\* voice in the order of the slice, a closing byte
jsonMarshal(vs) ==
  <<123>> \o [i \in 1..Len(vs) |-> 10 * vs[i].spec.Creator + vs[i].spec.Id] \o <<125>>

\* vc.MarshalJSON(): the collection after the call and the bytes returned
MarshalJSON(vc) ==
  LET j == IF Len(vc.json) = 0 THEN jsonMarshal(vc.voices) ELSE vc.json
  IN [vc |-> [vc EXCEPT !.json = j], data |-> j, err |-> NilErr]

\* voicesHandler, lines 388-396
VoicesHandler ==
  /\ pc = "voices"
  /\ LET h == [rb EXCEPT !.header = Set(rb.header, "Content-Type",
                                        Str("application/json; charset=utf-8"))]
         m == MarshalJSON(voices)
     IN /\ voices' = m.vc
        /\ IF m.err # NilErr
             THEN /\ rb' = h
                  /\ Return(m.err)
             ELSE /\ rb' = Write(h, m.data).rb
                  /\ Return(NilErr)
  /\ UNCHANGED <<wlog, ret, req, loc, defers, observed, client, resVars, envVars>>

\* a step of fn panics: the handler is left at once, its deferred calls run
Panic ==
  /\ pc \in {"resolve", "negotiate", "etag", "newfile", "extaudiofile", "newchannel",
              "setextaudiofile", "setdone", "speak", "voices"}
  /\ herr' = [kind |-> "panic", status |-> 0, msg |-> "runtime error"]
  /\ pc' = "defer"
  /\ UNCHANGED <<bufVars, voices, req, loc, defers, observed, client, resVars, envVars>>

\* a runHandler without the deferred recover: the panic leaves the goroutine
RecoverNone ==
  /\ pc = "defer"
  /\ defers = <<>>
  /\ herr.kind = "panic"
  /\ client' = client
  /\ pc' = "crashed"
  /\ UNCHANGED <<bufVars, voices, req, loc, herr, defers, observed, resVars, envVars>>

\* runHandler lines 71-77: the deferred recover, run after the handler's own
\* deferred calls
Recover ==
  /\ pc = "defer"
  /\ defers = <<>>
  /\ herr.kind = "panic"
  /\ client' = handleJSONError(500, "handler panic")
  /\ pc' = "responded"
  /\ UNCHANGED <<bufVars, voices, req, loc, herr, defers, observed, resVars, envVars>>

NextServe ==
  \/ Next
  \/ VoicesHandler
  \/ Panic
  \/ Recover

\* the registry as loadVoices left it, or after an earlier /voices request
ServeRegistries ==
  {VoiceCollection(<<Fred, Hysterical>>), MarshalJSON(VoiceCollection(<<Fred, Hysterical>>)).vc}

\* a plain /say request, one naming no voice of the registry, one revalidating
ServeRequests ==
  {NegBase, [NegBase EXCEPT !.voice = "Nobody"], [NegBase EXCEPT !.inm = Str("*")]}

InitServe == InitAt(ServeRegistries, ServeRequests, {"resolve", "voices"})

\* one request, for /say or for /voices, whose handler may panic
SpecServe == InitServe /\ [][NextServe]_vars

\* C22 (as claimed): no step of a request handler changes the voice registry
\* or any other state shared across requests. It is violated: the first
\* /voices request stores the encoded list in the shared collection.
C22_NoSharedWrites == [][voices' = voices]_vars

\* C23 (as claimed): a failure reported with a status of 500 or more carries
\* the generic status text of that status, never the text of the internal
\* error; a failure reported with a lower status carries the handler's
\* reason. The timeout of the completion wait, whose reason the error
\* taxonomy reports explicitly, is left out. It is violated: the test is
\* status <= 500, so a 500 response echoes the internal error.
C23_GenericServerErrors ==
  (pc = "responded" /\ client.via = "errfn" /\ observed # {"timeout"}) =>
    /\ client.status >= 500 => client.msg = StatusText(client.status)
    /\ client.status < 500 => client.msg = herr.msg

\* the handler of the request panicked
Panicked == herr.kind = "panic"

\* C24: a panic raised by a handler never leaves the request's goroutine (the
\* process is not terminated); once the request is answered, the answer is a
\* single error response with status 500, every engine resource the handler
\* had acquired is released, and the registry the other requests read is
\* what it was.
C24_PanicCaught ==
  /\ pc # "crashed"
  /\ (Panicked /\ pc = "responded") =>
       /\ client.n = 1 /\ client.via = "errfn" /\ client.status = 500
       /\ \A r \in Res : os[r].acq = os[r].rel
       /\ voices \in ServeRegistries

\* C24 witness: the handler panicked with the synthesizer channel open, and
\* the request was answered.
C24_Witness == Panicked /\ pc = "responded" /\ os["sc"].acq = 1

\* ---- the request parameters (SpecNeg)

\* the handler has resolved the sample rate and the response type
Negotiated == pc \notin {"resolve", "negotiate"} /\ loc.responseType # ""

\* the six samplerate values the service supports, and the number each spells
SupportedRates ==
  {<<"8000", 8000>>, <<"11025", 11025>>, <<"16000", 16000>>, <<"32000", 32000>>,
   <<"44100", 44100>>, <<"48000", 48000>>}

\* C25: once resolved, the sample rate is the number the samplerate parameter
\* spells when the parameter is exactly one of 8000, 11025, 16000, 32000,
\* 44100, 48000, and 22050 for every other value; so it is always one of
\* these seven numbers.
C25_SampleRate ==
  Negotiated =>
    /\ \A sr \in SupportedRates : req.samplerate = sr[1] => loc.sampleRate = sr[2]
    /\ (\A sr \in SupportedRates : req.samplerate # sr[1]) => loc.sampleRate = 22050
    /\ loc.sampleRate \in {sr[2] : sr \in SupportedRates} \cup {22050}

\* C25 witness: a request asking for 9000 was answered at the default rate.
C25_Witness ==
  Negotiated /\ pc = "responded" /\ req.samplerate = "9000" /\ loc.sampleRate = 22050

\* the value the type negotiation reads: the type parameter, else Accept
NegotiationInput(r) == IF r.type # "" THEN r.type ELSE r.accept

\* C26: once resolved, the response type is audio/wav or audio/mp4; it is
\* audio/mp4 exactly when the negotiation input selects audio/mp4 (a WAVE
\* alias, a wildcard or no acceptable match give audio/wav); the input is the
\* type parameter whenever that is non-empty, so that no Accept value changes
\* the result then; the Content-Type header names the response type; and the
\* encoder, once opened, was opened by the constructor of that type.
C26_ResponseType ==
  Negotiated =>
    /\ loc.responseType \in {"audio/wav", "audio/mp4"}
    /\ loc.responseType = "audio/mp4" <=> NegotiationInput(req) = "audio/mp4"
    /\ req.type # "" =>
         \A a \in NegAcceptTokens : responseTypeOf([req EXCEPT !.accept = a]) = loc.responseType
    /\ rb.header["Content-Type"] = Str(loc.responseType)
    /\ os["af"].acq > 0 =>
         af.newFileFunc = (IF loc.responseType = "audio/mp4" THEN "NewOutputAACFile"
                           ELSE "NewOutputWAVEFile")

\* C26 witness: the type parameter names a WAVE alias while Accept asks for
\* audio/mp4; the WAVE encoder was opened and the request answered.
C26_Witness ==
  /\ Negotiated /\ pc = "responded"
  /\ req.type = "audio/x-wav" /\ req.accept = "audio/mp4"
  /\ loc.responseType = "audio/wav" /\ af.newFileFunc = "NewOutputWAVEFile"

\* ---- the forwarded response (SpecServe)

\* the request was answered by forwarding the handler's buffer
Forwarded == pc = "responded" /\ client.via = "WriteTo"

\* C27: every response forwarded after a handler returned success has status
\* 200 or 304 and carries Accept-Ranges: bytes and a Last-Modified header;
\* had the handler set Last-Modified itself, the forwarded headers would
\* carry the handler's value; and with ETags enabled every forwarded /say
\* response carries an Etag header.
C27_ForwardedHeaders ==
  /\ Forwarded =>
       /\ client.status \in {200, 304}
       /\ "Accept-Ranges" \in DOMAIN client.header
       /\ client.header["Accept-Ranges"] = Str("bytes")
       /\ "Last-Modified" \in DOMAIN client.header
       /\ (useEtag /\ Negotiated) => "Etag" \in DOMAIN client.header
  /\ (pc = "defer" /\ defers = <<>> /\ herr.kind = "nil") =>
       /\ "Last-Modified" \notin DOMAIN rb.header
       /\ ForwardHeaders(Set(rb.header, "Last-Modified", Str("then")))["Last-Modified"]
            = Str("then")

\* C27 witness: a revalidating /say request was answered 304 through the
\* buffer.
C27_Witness == Forwarded /\ Negotiated /\ client.status = 304

\* ---- the attachment (SpecNeg)

FinHeaders ==
  {<<"Content-Type", Str("text/plain")>>, <<"Content-Length", 9>>, <<"X-Cache", Str("hit")>>}

\* statuses a handler may set with WriteHeader
FinStatuses == {200, 304, 404}

\* the handler has the buffer and has not handed it over yet
Filling == pc = "resolve"

\* rb.Write(p)
FinWrite ==
  /\ Filling
  /\ \E p \in RWData :
       LET r == Write(rb, p)
       IN /\ r.rb.len <= MaxLen
          /\ rb' = r.rb
  /\ UNCHANGED <<wlog, ret, reqVars, resVars, envVars>>

\* rb.WriteHeader(status)
FinWriteHeader ==
  /\ Filling
  /\ \E status \in FinStatuses : rb' = [rb EXCEPT !.status = status]
  /\ UNCHANGED <<wlog, ret, reqVars, resVars, envVars>>

\* rb.Header().Set(k, v)
FinHeaderSet ==
  /\ Filling
  /\ \E kv \in FinHeaders : rb' = [rb EXCEPT !.header = Set(rb.header, kv[1], kv[2])]
  /\ UNCHANGED <<wlog, ret, reqVars, resVars, envVars>>

\* rb.WriteTo(w), w a fresh http.ResponseWriter
FinWriteTo ==
  /\ Filling
  /\ client' = WriteTo(rb)
  /\ pc' = "responded"
  /\ UNCHANGED <<bufVars, voices, req, loc, herr, defers, observed, resVars, envVars>>

NextFin ==
  \/ FinWrite
  \/ FinWriteHeader
  \/ FinHeaderSet
  \/ FinWriteTo

\* a lone ResponseBuffer filled by arbitrary calls, then finalized once
SpecFin == InitBuf /\ [][NextFin]_vars

\* the place of a call in the order headers, status, body
CallRank(c) == CASE c = "Header" -> 1 [] c = "WriteHeader" -> 2 [] c = "Write" -> 3

\* the calls on the sink that are of kind c
CallsOf(c) == {i \in 1..Len(client.calls) : client.calls[i] = c}

\* C29: after WriteTo the sink holds every header of the buffer (Content-Length
\* apart when the buffer is non-empty); its Content-Length is the logical
\* length if the buffer is non-empty and was not set by WriteTo otherwise;
\* WriteHeader was called, with the pending status, iff a status was set;
\* Write was called, with exactly the buffered bytes, iff the buffer is
\* non-empty; and the calls came in the order headers, status, body.
C29_WriteTo ==
  Forwarded =>
    /\ \A k \in DOMAIN rb.header :
         (k # "Content-Length" \/ rb.len = 0) =>
           k \in DOMAIN client.header /\ client.header[k] = rb.header[k]
    /\ rb.len > 0 =>
         "Content-Length" \in DOMAIN client.header /\ client.header["Content-Length"] = rb.len
    /\ rb.len = 0 => DOMAIN client.header = DOMAIN rb.header
    /\ CallsOf("WriteHeader") # {} <=> rb.status # 0
    /\ rb.status # 0 => client.status = rb.status
    /\ CallsOf("Write") # {} <=> rb.len > 0
    /\ client.body = Contents(rb)
    /\ \A i, j \in 1..Len(client.calls) :
         i < j => CallRank(client.calls[i]) < CallRank(client.calls[j])

\* C29 witness: a non-empty buffer with a status, a header and a
\* Content-Length of its own was finalized.
C29_Witness ==
  /\ Forwarded /\ rb.len = 2 /\ rb.status = 404
  /\ "Content-Length" \in DOMAIN rb.header /\ "X-Cache" \in DOMAIN rb.header

\* ---- the order of the pipeline (Spec)

\* the steps of runHandler and speechHandler in program order
PipelineOrder ==
  <<"resolve", "negotiate", "etag", "newfile", "extaudiofile", "newchannel",
    "setextaudiofile", "setdone", "speak", "wait", "defer", "responded">>

StepRank(p) == CHOOSE i \in 1..Len(PipelineOrder) : PipelineOrder[i] = p

\* what the effects of the steps show about their order
OrderOfEffects ==
  /\ (req.text = "" /\ herr # NotReturned) => (herr.kind = "httpError" /\ herr.status = 400)
  /\ Resolved => req.text # ""
  /\ loc.etag # Str("") => Resolved
  /\ os["af"].acq > 0 => (loc.etag # Str("") /\ ~checkEtagDone(req, loc.etag))
  /\ os["eaf"].acq > 0 => os["af"].acq > 0
  /\ os["sc"].acq > 0 => os["eaf"].acq > 0
  /\ sc.done => os["sc"].acq > 0
  /\ engine.state # "idle" => sc.done
  /\ observed # {} => engine.state # "idle"
  /\ client.n > 0 => (pc = "responded" /\ defers = <<>>)

\* a step of the handler moves to the next step or leaves for finalization
OrderOfSteps ==
  pc' # pc =>
    \/ StepRank(pc') = StepRank(pc) + 1
    \/ pc' = "defer" /\ StepRank(pc) < StepRank("defer")

\* nothing of the pipeline moves once the request is answered
QuietWhenAnswered ==
  pc = "responded" =>
    /\ pc' = pc /\ client' = client /\ loc' = loc /\ herr' = herr /\ defers' = defers
    /\ observed' = observed /\ sc'.done = sc.done
    /\ \A r \in Res : os'[r].acq = os[r].acq
    /\ engine.state = "idle" => engine'.state = "idle"

HandlerStep ==
  \/ ResolveVoice \/ NegotiateType \/ CheckEtag \/ NewFile \/ ExtAudioFile
  \/ NewChannel \/ SetExtAudioFile \/ SetDone \/ SpeakString
  \/ WaitDone \/ WaitTimeout
  \/ ChannelClose \/ ExtAudioFileClose \/ AudioFileClose
  \/ Forward \/ FailHttp \/ FailOther

\* a request that succeeds, one for an unknown voice, one that revalidates,
\* one without text
LiveRequests ==
  {NegBase, [NegBase EXCEPT !.voice = "Nobody"], [NegBase EXCEPT !.inm = Str("*")],
   [NegBase EXCEPT !.text = ""]}

InitLive == InitRequest({VoiceCollection(<<Fred, Hysterical>>)}, LiveRequests)

\* one /say request whose goroutine keeps being scheduled and whose timer,
\* once armed, fires; the engine owes nothing
SpecLive ==
  /\ InitLive
  /\ [][Next]_vars
  /\ WF_vars(HandlerStep)
  /\ WF_vars(TimerFire)

\* the request is answered: Done or Failed
Answered == pc = "responded"

\* the goroutine of the request can take its next step
CanStep == ENABLED HandlerStep

\* C31: every /say request is eventually answered, even if the engine never
\* signals completion, provided the timer fires; until then the request's
\* goroutine can always take its next step, except in the completion wait:
\* validation, voice resolution and the cache check never block.
C31_EventuallyAnswered ==
  /\ [](~Answered /\ pc # "wait" => CanStep)
  /\ <>Answered

\* C31 witness: the engine never signalled, the wait ended by the timeout and
\* the request was answered.
C31_Witness ==
  Answered /\ observed = {"timeout"} /\ engine.state = "stopped" /\ cb = "idle"

\* ---- startup (SpecLoad)

\* what the system reports for one voice index: the voice, and which of
\* GetVoice, Description, Attributes fails for it ("" if none does)
VoiceOutcomes == {"", "GetVoice", "Description", "Attributes"}

SystemVoices == {Fred, Hysterical, Thomas, Zarvox}

\* the enumerations mactts.NumVoices / GetVoice(1..n) may present: up to two
\* voices of different names
Enumerations ==
  {<<>>}
  \cup {<<[voice |-> v, fails |-> f]>> : v \in SystemVoices, f \in VoiceOutcomes}
  \cup {e \in {<<[voice |-> v, fails |-> f], [voice |-> w, fails |-> g]>> :
                  v \in SystemVoices, w \in SystemVoices,
                  f \in VoiceOutcomes, g \in VoiceOutcomes} :
          e[1].voice.Name # e[2].voice.Name}

\* var voices VoiceCollection: the zero value
ZeroVoiceCollection == [json |-> <<>>, voices |-> <<>>, voiceByName |-> [n \in {} |-> NilVoice]]

\* the Voice built in the loop body of loadVoices for enumeration entry e
LoadedVoice(e) ==
  [Name |-> e.voice.Name, gender |-> e.voice.gender,
   Locale |-> IF e.fails = "Attributes" THEN "" ELSE e.voice.Locale,
   spec |-> e.voice.spec]

\* the loop of loadVoices from index i on, vs and vsm filled so far: the
\* error returned (nil included) and the collection the package variable
\* holds afterwards
RECURSIVE loadVoicesFrom(_, _, _, _)
loadVoicesFrom(enum, i, vs, vsm) ==
  IF i > Len(enum)
    THEN [err |-> "nil", vc |-> [json |-> <<>>, voices |-> vs, voiceByName |-> vsm]]
  ELSE IF enum[i].fails = "GetVoice"
    THEN [err |-> "OSErr", vc |-> ZeroVoiceCollection]
  ELSE IF enum[i].fails = "Description"
    THEN [err |-> "nil", vc |-> ZeroVoiceCollection]
  ELSE LET v == LoadedVoice(enum[i])
       IN loadVoicesFrom(enum, i + 1, Append(vs, v), (v.Name :> v) @@ vsm)

\* loadVoices(), lines 349-386
loadVoices(enum) == loadVoicesFrom(enum, 1, <<>>, ZeroVoiceCollection.voiceByName)

\* main, lines 398-401: loadVoices at startup; an error ends the process
LoadVoices ==
  /\ pc = "startup"
  /\ \E enum \in Enumerations :
       LET r == loadVoices(enum)
       IN /\ voices' = r.vc
          /\ ret' = [op |-> "loadVoices", n |-> Len(enum), err |-> r.err, off |-> 0,
                     p |-> enum, pre |-> ResponseBuffer]
          /\ pc' = IF r.err = "nil" THEN "serving" ELSE "exit"
  /\ UNCHANGED <<rb, wlog, req, loc, herr, defers, observed, client, resVars, envVars>>

InitLoad == InitAt({ZeroVoiceCollection}, {NegBase}, {"startup"})

\* the process from its start to the end of loadVoices
SpecLoad == InitLoad /\ [][LoadVoices]_vars

\* C32 (as claimed): when loadVoices has returned without error, the registry
\* holds one record for each enumerated voice, in order, each found in the
\* name index under its own name; and if GetVoice or Description failed for
\* some voice, loadVoices returned an error. It is violated: a failing
\* Description makes loadVoices return nil with the registry left empty.
C32_LoadVoicesComplete ==
  ret.op = "loadVoices" =>
    /\ ret.err = "nil" =>
         /\ Len(voices.voices) = Len(ret.p)
         /\ \A i \in 1..Len(voices.voices) :
              /\ voices.voices[i].spec = ret.p[i].voice.spec
              /\ voices.voices[i].Name \in DOMAIN voices.voiceByName
              /\ voices.voiceByName[voices.voices[i].Name] = voices.voices[i]
    /\ (\E i \in 1..Len(ret.p) : ret.p[i].fails \in {"GetVoice", "Description"}) =>
         ret.err # "nil"

\* ---- last write wins (SpecBuf)

\* the writes issued so far that cover byte position i (counted from 1)
Covering(i) ==
  {k \in 1..Len(wlog) : wlog[k].off < i /\ i <= wlog[k].off + Len(wlog[k].p)}

\* C33: after any Write and WriteAt calls on a fresh buffer, every byte below
\* the logical length is the byte the most recent write covering its
\* position supplied for it, and zero if no write covered the position.
C33_LastWriteWins ==
  \A i \in 1..rb.len :
    IF Covering(i) = {}
      THEN rb.arr[i] = 0
      ELSE LET k == CHOOSE k \in Covering(i) : \A j \in Covering(i) : j <= k
           IN rb.arr[i] = wlog[k].p[i - wlog[k].off]

\* C33 witness: two writes leave a position below the length that neither
\* covered and a position both covered with different bytes.
C33_Witness ==
  /\ \E i \in 1..rb.len : Covering(i) = {}
  /\ \E i \in 1..rb.len :
       /\ Covering(i) = {1, 2}
       /\ wlog[1].p[i - wlog[1].off] # wlog[2].p[i - wlog[2].off]

\* ---- one response per request (SpecServe)

\* the handler failed: it returned an error or panicked
HandlerFailed == herr.kind \in {"httpError", "error", "panic"}

\* C34: a request is answered exactly once: never more than one response is
\* produced, an answered request has one; the response is the forwarded
\* buffer exactly when the handler returned nil and the error function's
\* response exactly when it failed; and a failed handler's response carries
\* only what the error function wrote, not the headers, status or bytes of
\* the buffer.
C34_ExactlyOneResponse ==
  /\ client.n <= 1
  /\ Answered =>
       /\ client.n = 1
       /\ client.via = "WriteTo" <=> herr.kind = "nil"
       /\ client.via = "errfn" <=> HandlerFailed
       /\ client.via = "WriteTo" => client.calls \in {<<>>, <<"Header">>, <<"Header", "WriteHeader">>,
                                                      <<"Header", "Write">>,
                                                      <<"Header", "WriteHeader", "Write">>}
       /\ HandlerFailed =>
            /\ client.calls = <<"Header", "WriteHeader", "Write">>
            /\ DOMAIN client.header = {"Content-Type"}
            /\ client.header["Content-Type"] = Str("application/json; charset=utf-8")
            /\ client.body = <<>>
            /\ client.status >= 400

\* C34 witness: the handler failed after it had put headers and bytes into
\* the buffer, and the request was answered.
C34_Witness ==
  /\ Answered /\ herr.kind = "error"
  /\ rb.len > 0 /\ "Etag" \in DOMAIN rb.header

\* ---- the callback's send (SpecLive)

\* C35 (as claimed): every invocation of the completion callback returns: its
\* send on the done channel is eventually received, also when the callback
\* fires after the timeout case has been taken. It is violated: once the
\* select has returned by the timeout nothing receives from the channel, and
\* a callback that has started its send stays blocked.
C35_SendReceived == (cb = "sending") ~> (cb = "returned")

\* ---- the order of the Closes (SpecServe)

\* resource r has been acquired and not released yet
Open(r) == os[r].acq > os[r].rel

\* resource r has been released
Closed(r) == os[r].rel > 0

\* C36: on every exit path of speechHandler, a panic included, the AudioFile
\* is closed only when the ExtAudioFile wrapping it is no longer open and
\* the ExtAudioFile only when the Channel writing to it is no longer open;
\* the AudioFile is never closed while its ExtAudioFile is open.
C36_CloseOrder ==
  /\ Closed("af") => ~Open("eaf")
  /\ Closed("eaf") => ~Open("sc")
  /\ eaf.ceaf => af.id
  /\ sc.csc => eaf.ceaf

\* C36 witness: the handler panicked with all three open, and all three
\* have been closed.
C36_Witness ==
  /\ Panicked /\ Closed("af") /\ Closed("eaf") /\ Closed("sc")

\* ---- what each operation leaves alone (SpecFrame)

\* the last call, for the operations that take no data
FrRet(op, b) == [op |-> op, n |-> 0, err |-> "nil", off |-> 0, p |-> <<>>, pre |-> b]

\* rb.Read(p) with len(p) = size
FrRead ==
  /\ \E size \in RWSizes : rb' = Read(rb, size).rb
  /\ ret' = FrRet("Read", rb)
  /\ UNCHANGED <<wlog, reqVars, resVars, envVars>>

\* rb.Seek(offset, whence)
FrSeek ==
  /\ \E offset \in SeekOffsets, whence \in Whences : rb' = Seek(rb, offset, whence).rb
  /\ ret' = FrRet("Seek", rb)
  /\ UNCHANGED <<wlog, reqVars, resVars, envVars>>

\* rb.Write(p)
FrWrite ==
  /\ \E p \in RWData :
       LET r == Write(rb, p)
       IN /\ r.rb.len <= MaxLen
          /\ rb' = r.rb
  /\ ret' = FrRet("Write", rb)
  /\ UNCHANGED <<wlog, reqVars, resVars, envVars>>

\* rb.WriteAt(p, off), any off
FrWriteAt ==
  /\ \E off \in RWOffs, p \in RWData :
       LET r == WriteAt(rb, p, off)
       IN /\ r.rb.len <= MaxLen
          /\ rb' = r.rb
  /\ ret' = FrRet("WriteAt", rb)
  /\ UNCHANGED <<wlog, reqVars, resVars, envVars>>

\* rb.ReadAt(p, off) with len(p) = size: the method assigns no field of rb
FrReadAt ==
  /\ \E off \in ReadAtOffs, size \in RWSizes :
       LET r == ReadAt(rb, size, off)
       IN ret' = [FrRet("ReadAt", rb) EXCEPT !.n = r.n, !.err = r.err, !.p = r.data]
  /\ rb' = rb
  /\ UNCHANGED <<wlog, reqVars, resVars, envVars>>

\* rb.WriteHeader(status)
FrWriteHeader ==
  /\ \E status \in {0, 304, 404} : rb' = [rb EXCEPT !.status = status]
  /\ ret' = FrRet("WriteHeader", rb)
  /\ UNCHANGED <<wlog, reqVars, resVars, envVars>>

\* rb.Header().Set("X-Cache", "hit")
FrHeaderSet ==
  /\ rb' = [rb EXCEPT !.header = Set(rb.header, "X-Cache", Str("hit"))]
  /\ ret' = FrRet("Header", rb)
  /\ UNCHANGED <<wlog, reqVars, resVars, envVars>>

NextFrame ==
  \/ FrRead
  \/ FrSeek
  \/ FrWrite
  \/ FrWriteAt
  \/ FrReadAt
  \/ FrWriteHeader
  \/ FrHeaderSet

\* a lone ResponseBuffer under arbitrary calls of its methods
SpecFrame == InitBuf /\ [][NextFrame]_vars

\* C37: the last operation left the rest of the buffer as it was: ReadAt
\* changed nothing; Read and Seek changed at most the cursor; Write and
\* WriteAt changed at most contents and logical length, not the cursor, the
\* status or the headers; WriteHeader changed at most the pending status.
C37_Frames ==
  /\ ret.op = "ReadAt" => rb = ret.pre
  /\ ret.op \in {"Read", "Seek"} => [rb EXCEPT !.readOfs = ret.pre.readOfs] = ret.pre
  /\ ret.op \in {"Write", "WriteAt"} =>
       /\ rb.readOfs = ret.pre.readOfs
       /\ rb.status = ret.pre.status
       /\ rb.header = ret.pre.header
  /\ ret.op = "WriteHeader" => [rb EXCEPT !.status = ret.pre.status] = ret.pre

\* C37 witness: a Write that reallocated a buffer whose cursor had moved and
\* whose status and headers were set.
C37_Witness ==
  /\ ret.op = "Write" /\ cap(rb) > cap(ret.pre)
  /\ ret.pre.readOfs > 0 /\ ret.pre.status = 404 /\ "X-Cache" \in DOMAIN ret.pre.header
====
